---- MODULE Spec2Model ----
(***************************************************************************)
(* safe-chain: the wrapper orchestrator (main / scanCommand), the audit    *)
(* counters (auditChanges), the interceptor builder, the npm and pip       *)
(* interceptors and the MITM proxy (handleConnect / handleRequest).        *)
(*                                                                         *)
(* Strings the code inspects character by character (URL paths, file       *)
(* names, package names, versions) are sequences of one-character strings. *)
(* The JavaScript value undefined of such a string is Undefined.           *)
(***************************************************************************)
EXTENDS Integers, Sequences, FiniteSets, TLC

\* ------------------------------------------------------------------ bounds
\* the proxy specification: CONNECT tunnels and requests of the child
MaxTunnels == 2
MaxRequests == 2
\* the wrapper specification (main, with the child and the proxy)
MaxMainTunnels == 1
MaxMainRequests == 1
\* the audit specification: requests of the child after the pre-scan
MaxAuditRequests == 2
\* the changes one dependency resolution reports
MaxChanges == 2
\* the variables of the caller's environment
MaxEnv == 3
\* the arguments of the command line
MaxArgs == 3
\* most body modifiers registered on one request context
MaxFuncs == 2

\* ------------------------------------------------------- string primitives
Undefined == <<"<undefined>">>

\* JavaScript truthiness of a string | undefined
Falsy(s) == s = Undefined \/ s = <<>>

Min(S) == CHOOSE x \in S : \A y \in S : x <= y
Max(S) == CHOOSE x \in S : \A y \in S : x >= y

\* String.prototype.endsWith
EndsWith(s, suf) ==
  /\ Len(s) >= Len(suf)
  /\ SubSeq(s, Len(s) - Len(suf) + 1, Len(s)) = suf

\* String.prototype.startsWith
StartsWith(s, pre) ==
  /\ Len(s) >= Len(pre)
  /\ SubSeq(s, 1, Len(pre)) = pre

\* String.prototype.indexOf(c) for a one-character c: 0-based, -1 when absent
IndexOf(s, c) ==
  LET hits == {i \in 1..Len(s) : s[i] = c}
  IN IF hits = {} THEN -1 ELSE Min(hits) - 1

\* String.prototype.lastIndexOf(c) for a one-character c
LastIndexOf(s, c) ==
  LET hits == {i \in 1..Len(s) : s[i] = c}
  IN IF hits = {} THEN -1 ELSE Max(hits) - 1

\* String.prototype.slice(from, to) with 0 <= from, to exclusive
Slice(s, from, to) == SubSeq(s, from + 1, to)

\* String.prototype.includes(sub)
Includes(s, sub) ==
  \E i \in 1..(Len(s) - Len(sub) + 1) : SubSeq(s, i, i + Len(sub) - 1) = sub

\* String.prototype.toLowerCase over the letters the file extensions use and
\* over the pieces of command-line arguments
LowerChar(c) ==
  CASE c = "T" -> "t" [] c = "A" -> "a" [] c = "R" -> "r" [] c = "G" -> "g"
    [] c = "Z" -> "z" [] c = "I" -> "i" [] c = "P" -> "p" [] c = "B" -> "b"
    [] c = "X" -> "x"
    [] c = "--SAFE-CHAIN-" -> "--safe-chain-"
    [] c = "--Safe-Chain-" -> "--safe-chain-"
    [] c = "SKIP-MINIMUM-PACKAGE-AGE" -> "skip-minimum-package-age"
    [] c = "Minimum-Package-Age-Hours=" -> "minimum-package-age-hours="
    [] c = "VERBOSE" -> "verbose"
    [] c = "--Include-Python" -> "--include-python"
    [] OTHER -> c

ToLowerCase(s) == [i \in 1..Len(s) |-> LowerChar(s[i])]

\* decodeURIComponent over the escapes %2D ("-"), %2E (".") and %5F ("_")
RECURSIVE DecodeURIComponent(_)
DecodeURIComponent(s) ==
  IF s = <<>> THEN <<>>
  ELSE IF s[1] = "%" /\ Len(s) >= 3
       THEN LET code == <<s[2], s[3]>>
                ch == CASE code = <<"2", "D">> -> "-"
                        [] code = <<"2", "E">> -> "."
                        [] code = <<"5", "F">> -> "_"
                        [] OTHER -> "?"
            IN <<ch>> \o DecodeURIComponent(SubSeq(s, 4, Len(s)))
       ELSE <<s[1]>> \o DecodeURIComponent(Tail(s))

\* URL.pathname of a path-and-query string: what precedes the first ? or #
Pathname(p) ==
  LET cut == {i \in 1..Len(p) : p[i] = "?" \/ p[i] = "#"}
  IN IF cut = {} THEN p ELSE SubSeq(p, 1, Min(cut) - 1)

\* pathname.split("/").filter(Boolean).pop(): the last non-empty segment
LastSegment(p) ==
  LET ends == {i \in 1..Len(p) : p[i] # "/"}
  IN IF ends = {} THEN Undefined
     ELSE LET e == Max(ends)
              starts == {i \in 1..e : \A j \in i..e : p[j] # "/"}
          IN SubSeq(p, Min(starts), e)

\* ------------------------------------------------------------ string data
Ch_whl == <<".", "w", "h", "l">>
Ch_tgz == <<".", "t", "g", "z">>
Ch_latest == <<"l", "a", "t", "e", "s", "t">>
SdistExtensions ==
  { <<".", "t", "a", "r", ".", "g", "z">>, <<".", "z", "i", "p">>,
    <<".", "t", "a", "r", ".", "b", "z", "2">>, <<".", "t", "a", "r", ".", "x", "z">> }

NoPackage == [packageName |-> Undefined, version |-> Undefined]

\* ------------------------------------------------ pip URL parser (pipInterceptor.js)
\* filename.match(/\.(tar\.gz|zip|tar\.bz2|tar\.xz)$/i): the matched text, or <<>>
SdistExtMatch(filename) ==
  LET m == {e \in SdistExtensions : EndsWith(ToLowerCase(filename), e)}
  IN IF m = {} THEN <<>>
     ELSE LET e == CHOOSE x \in m : TRUE
          IN SubSeq(filename, Len(filename) - Len(e) + 1, Len(filename))

\* a variant of the sdist branch that cuts at the first "-"
ParseSdist_FirstDash(filename) ==
  LET ext == SdistExtMatch(filename)
  IN IF ext = <<>> THEN NoPackage
     ELSE LET base == Slice(filename, 0, Len(filename) - Len(ext))
              lastDash == IndexOf(base, "-")
          IN IF lastDash > 0 /\ lastDash < Len(base) - 1
             THEN LET packageName == Slice(base, 0, lastDash)
                      version == Slice(base, lastDash + 1, Len(base))
                  IN IF version = Ch_latest \/ Falsy(packageName) \/ Falsy(version)
                     THEN NoPackage
                     ELSE [packageName |-> packageName, version |-> version]
             ELSE NoPackage

ParseSdist(filename) ==
  LET ext == SdistExtMatch(filename)
  IN IF ext = <<>> THEN NoPackage
     ELSE LET base == Slice(filename, 0, Len(filename) - Len(ext))
              lastDash == LastIndexOf(base, "-")
          IN IF lastDash > 0 /\ lastDash < Len(base) - 1
             THEN LET packageName == Slice(base, 0, lastDash)
                      version == Slice(base, lastDash + 1, Len(base))
                  IN IF version = Ch_latest \/ Falsy(packageName) \/ Falsy(version)
                     THEN NoPackage
                     ELSE [packageName |-> packageName, version |-> version]
             ELSE NoPackage

ParseWheelOrSdist(filename) ==
  IF EndsWith(filename, Ch_whl)
  THEN LET base == Slice(filename, 0, Len(filename) - 4)
           firstDash == IndexOf(base, "-")
       IN IF firstDash > 0
          THEN LET dist == Slice(base, 0, firstDash)
                   rest == Slice(base, firstDash + 1, Len(base))
                   secondDash == IndexOf(rest, "-")
                   rawVersion == IF secondDash >= 0 THEN Slice(rest, 0, secondDash)
                                 ELSE rest
               IN IF rawVersion = Ch_latest \/ Falsy(dist) \/ Falsy(rawVersion)
                  THEN NoPackage
                  ELSE [packageName |-> dist, version |-> rawVersion]
          ELSE ParseSdist(filename)
  ELSE ParseSdist(filename)

\* url is a target URL [host, path]; registry is the matched registry name,
\* <<>> when undefined
parsePipPackageFromUrl(url, registry) ==
  IF registry = <<>> THEN NoPackage
  ELSE LET lastSegment == LastSegment(Pathname(url.path))
       IN IF Falsy(lastSegment) THEN NoPackage
          ELSE ParseWheelOrSdist(DecodeURIComponent(lastSegment))

\* ------------------------------------- npm URL parser (spec section 4.2.1)
\* The tarball file name is the last path segment; the version follows the
\* last "-" of the file name, the name precedes it; a first path segment
\* that starts with "@" is the scope of the name.
parseNpmPackageUrl(url, registry) ==
  LET path == Pathname(url.path)
  IN IF registry = <<>> \/ ~EndsWith(path, Ch_tgz) THEN NoPackage
     ELSE LET filename == LastSegment(path)
              base == Slice(filename, 0, Len(filename) - 4)
              lastDash == LastIndexOf(base, "-")
              first == LET rest == Tail(path)
                           i == IndexOf(rest, "/")
                       IN IF i < 0 THEN rest ELSE Slice(rest, 0, i)
              bare == Slice(base, 0, lastDash)
          IN IF lastDash <= 0 THEN NoPackage
             ELSE [packageName |-> IF StartsWith(first, <<"@">>)
                                   THEN first \o <<"/">> \o bare ELSE bare,
                   version |-> Slice(base, lastDash + 1, Len(base))]

\* ------------------------------------ npm URL classes (modifyNpmInfo.js)
\* url.split("?")[0].split("#")[0] is Pathname of the path: the scheme and
\* the host of a target URL hold no "?", no "#", no ".tgz" and no "/-/".
\* a variant of isPackageInfoUrl that looks at the URL with its query and
\* fragment
isPackageInfoUrl_WithParams(url) ==
  LET urlWithoutParams == url.path
  IN IF EndsWith(urlWithoutParams, Ch_tgz) THEN FALSE
     ELSE IF Includes(urlWithoutParams, <<"/", "-", "/">>) THEN FALSE
     ELSE TRUE

isPackageInfoUrl(url) ==
  LET urlWithoutParams == Pathname(url.path)
  IN IF EndsWith(urlWithoutParams, Ch_tgz) THEN FALSE
     ELSE IF Includes(urlWithoutParams, <<"/", "-", "/">>) THEN FALSE
     ELSE TRUE

\* -------------------------------- npm metadata rewriter (modifyNpmInfo.js)
\* settings.js getMinimumPackageAgeHours()
getMinimumPackageAgeHours == 24

\* new Date().getTime() at the call, in hours
Now == 48

\* the code unit of a digit
CharCode(c) ==
  CASE c = "0" -> 48 [] c = "1" -> 49 [] c = "2" -> 50 [] c = "3" -> 51 [] c = "4" -> 52
    [] c = "5" -> 53 [] c = "6" -> 54 [] c = "7" -> 55 [] c = "8" -> 56 [] c = "9" -> 57

\* a < b on strings: by code units, a proper prefix is smaller
RECURSIVE StrLess(_, _)
StrLess(a, b) ==
  IF b = <<>> THEN FALSE
  ELSE IF a = <<>> THEN TRUE
  ELSE IF a[1] = b[1] THEN StrLess(Tail(a), Tail(b))
  ELSE CharCode(a[1]) < CharCode(b[1])

\* new Date(timestamp).getTime(), in hours: the digits read as a number
RECURSIVE DateOf(_)
DateOf(timestamp) ==
  IF timestamp = <<>> THEN 0
  ELSE 10 * DateOf(SubSeq(timestamp, 1, Len(timestamp) - 1))
       + (CharCode(timestamp[Len(timestamp)]) - CharCode("0"))

\* modifyNpmInfoResponse: cutOff
cutOff == Now - getMinimumPackageAgeHours

Key_created == <<"created">>
Key_modified == <<"modified">>
Tag_latest == "latest"

allowedBasePackages ==
  { <<"@", "brightspace-hmc">>, <<"@", "brightspace-ui">>, <<"@", "brightspace-ui-labs">>,
    <<"d2l-hypermedia-constants">>, <<"d2l-license-checker">>, <<"d2l-npm-login">>,
    <<"d2l-test-reporting">>, <<"eslint-config-brightspace">>, <<"frau-publisher">>,
    <<"messageformat-validator">> }

\* a variant of isPackageExemptFromAgeCheck that exempts nothing
isPackageExemptFromAgeCheck_Never(packageName) == FALSE

\* isPackageExemptFromAgeCheck(packageName)
isPackageExemptFromAgeCheck(packageName) ==
  IF packageName = Undefined THEN FALSE
  ELSE LET slash == IndexOf(packageName, "/")
           basePackageName ==
             IF StartsWith(packageName, <<"@">>)
             THEN (IF slash < 0 THEN packageName ELSE Slice(packageName, 0, slash))
             ELSE packageName
       IN basePackageName \in allowedBasePackages

\* the entries of an object, a sequence of <<key, value>>, without those of
\* the given keys (delete, filter)
RECURSIVE WithoutKeys(_, _)
WithoutKeys(entries, keys) ==
  IF entries = <<>> THEN <<>>
  ELSE IF Head(entries)[1] \in keys THEN WithoutKeys(Tail(entries), keys)
  ELSE <<Head(entries)>> \o WithoutKeys(Tail(entries), keys)

\* object[key], Undefined when the object has no such key
ValueOf(entries, key) ==
  LET hits == {i \in 1..Len(entries) : entries[i][1] = key}
  IN IF hits = {} THEN Undefined ELSE entries[Min(hits)][2]

\* getHeaderValueAsString(headers, headerName); <<>> is `headers` undefined
getHeaderValueAsString(headers, headerName) ==
  IF headers = <<>> THEN Undefined ELSE ValueOf(headers[1], headerName)

\* object[key] = value: in place for a key the object has, at the end otherwise
SetValue(entries, key, value) ==
  IF \E i \in 1..Len(entries) : entries[i][1] = key
  THEN [i \in 1..Len(entries) |->
          IF entries[i][1] = key THEN <<key, value>> ELSE entries[i]]
  ELSE Append(entries, <<key, value>>)

Accept_compact ==
  <<"application/vnd.npm.install-v1+json", "; q=1.0, ", "application/json", "; q=0.8, */*">>
Accept_json == <<"application/json">>

\* a variant of modifyNpmInfoRequestHeaders that leaves accept alone
modifyNpmInfoRequestHeaders_Keep(headers) == headers

\* modifyNpmInfoRequestHeaders(headers)
modifyNpmInfoRequestHeaders(headers) ==
  LET accept == getHeaderValueAsString(<<headers>>, "accept")
  IN IF accept # Undefined /\ Includes(accept, <<"application/vnd.npm.install-v1+json">>)
     THEN SetValue(headers, "accept", Accept_json)
     ELSE headers

\* deleteVersionFromJson(json, version)
RECURSIVE DistTagsWithout(_, _)
DistTagsWithout(distTags, version) ==
  IF distTags = <<>> THEN <<>>
  ELSE IF Head(distTags)[2] = version THEN DistTagsWithout(Tail(distTags), version)
  ELSE <<Head(distTags)>> \o DistTagsWithout(Tail(distTags), version)

deleteVersionFromJson(json, version) ==
  [json EXCEPT !.time = WithoutKeys(@, {version}),
               !.versions = WithoutKeys(@, {version}),
               !.distTags = DistTagsWithout(@, version)]

\* getMostRecentTag(tagList): the first entry with the largest timestamp, the
\* timestamps compared as strings
RECURSIVE MostRecentFrom(_, _, _)
MostRecentFrom(entries, current, currentDate) ==
  IF entries = <<>> THEN current
  ELSE IF Falsy(currentDate) \/ StrLess(currentDate, Head(entries)[2])
       THEN MostRecentFrom(Tail(entries), Head(entries)[1], Head(entries)[2])
       ELSE MostRecentFrom(Tail(entries), current, currentDate)

getMostRecentTag(tagList) == MostRecentFrom(tagList, Undefined, Undefined)

\* entries.filter(p) for the two filters of calculateLatestTag
RECURSIVE FilterDash(_, _)
FilterDash(entries, withDash) ==
  IF entries = <<>> THEN <<>>
  ELSE IF Includes(Head(entries)[1], <<"-">>) = withDash
       THEN <<Head(entries)>> \o FilterDash(Tail(entries), withDash)
       ELSE FilterDash(Tail(entries), withDash)

\* a variant of calculateLatestTag that takes the most recent entry, full
\* release or not
calculateLatestTag_AnyRelease(tagList) ==
  getMostRecentTag(WithoutKeys(tagList, {Key_created, Key_modified}))

\* calculateLatestTag(tagList)
calculateLatestTag(tagList) ==
  LET entries == WithoutKeys(tagList, {Key_created, Key_modified})
      latestFullRelease == getMostRecentTag(FilterDash(entries, FALSE))
  IN IF ~Falsy(latestFullRelease) THEN latestFullRelease
     ELSE getMostRecentTag(FilterDash(entries, TRUE))

\* a response body: empty, something JSON.parse rejects, JSON that lacks
\* time, dist-tags or versions, or a packument. A packument body holds its
\* value and whether its bytes are those the upstream sent (raw) or those of
\* JSON.stringify.
EmptyBody == [type |-> "empty"]
TextBody == [type |-> "text"]
OtherJsonBody == [type |-> "json-other"]
JsonBody(json, raw) == [type |-> "json", raw |-> raw, json |-> json]

\* JSON whose `versions`, or whose `dist-tags`, is a string and no object:
\* the field holds the own properties of the string, one for each index
VersionsStringBody(json) == [type |-> "json-versions-string", raw |-> TRUE, json |-> json]
DistTagsStringBody(json) == [type |-> "json-dist-tags-string", raw |-> TRUE, json |-> json]

\* JSON.stringify(bodyJson): a property whose value is undefined is left out
RECURSIVE WithoutUndefined(_)
WithoutUndefined(entries) ==
  IF entries = <<>> THEN <<>>
  ELSE IF Head(entries)[2] = Undefined THEN WithoutUndefined(Tail(entries))
  ELSE <<Head(entries)>> \o WithoutUndefined(Tail(entries))

Stringify(json) == JsonBody([json EXCEPT !.distTags = WithoutUndefined(@)], FALSE)

CT_json == <<"application/json">>
CT_html == <<"text/html">>
CachingHeaders == {"etag", "last-modified", "cache-control"}

\* a variant of the loop that also removes a version published exactly at
\* the cutoff
RECURSIVE RemoveTooYoung_AtCutoff(_, _, _)
RemoveTooYoung_AtCutoff(versions, isExempt, acc) ==
  IF versions = <<>> THEN acc
  ELSE RemoveTooYoung_AtCutoff(Tail(versions), isExempt,
         IF ~isExempt /\ DateOf(Head(versions)[2]) >= cutOff
         THEN [json |-> deleteVersionFromJson(acc.json, Head(versions)[1]),
               headers |-> IF acc.headers # <<>>
                           THEN <<WithoutKeys(acc.headers[1], CachingHeaders)>>
                           ELSE acc.headers,
               hasSuppressedVersions |-> TRUE]
         ELSE acc)

\* a variant of the loop that stops after the first version it removes
RECURSIVE RemoveTooYoung_FirstOnly(_, _, _)
RemoveTooYoung_FirstOnly(versions, isExempt, acc) ==
  IF versions = <<>> THEN acc
  ELSE IF ~isExempt /\ DateOf(Head(versions)[2]) > cutOff
       THEN [json |-> deleteVersionFromJson(acc.json, Head(versions)[1]),
             headers |-> IF acc.headers # <<>>
                         THEN <<WithoutKeys(acc.headers[1], CachingHeaders)>>
                         ELSE acc.headers,
             hasSuppressedVersions |-> TRUE]
       ELSE RemoveTooYoung_FirstOnly(Tail(versions), isExempt, acc)

\* deleteVersionFromJson throws, after it has set state.hasSuppressedVersions:
\* the module is in strict mode, where the delete of an own index property
\* of a string is a TypeError
ThrowsOnDelete(body, version) ==
  \/ /\ body.type = "json-versions-string"
     /\ \E i \in 1..Len(body.json.versions) : body.json.versions[i][1] = version
  \/ /\ body.type = "json-dist-tags-string"
     /\ \E i \in 1..Len(body.json.distTags) : body.json.distTags[i][2] = version

\* the iterations of the loop in which deleteVersionFromJson throws
ThrowingIterations(body, versions, isExempt) ==
  {i \in 1..Len(versions) :
     /\ ~isExempt
     /\ DateOf(versions[i][2]) > cutOff
     /\ ThrowsOnDelete(body, versions[i][1])}

\* the loop of modifyNpmInfoResponse over the versions of `time`
RECURSIVE RemoveTooYoung(_, _, _)
RemoveTooYoung(versions, isExempt, acc) ==
  IF versions = <<>> THEN acc
  ELSE LET version == Head(versions)[1]
           timestampValue == DateOf(Head(versions)[2])
       IN RemoveTooYoung(Tail(versions), isExempt,
            IF ~isExempt /\ timestampValue > cutOff
            THEN [json |-> deleteVersionFromJson(acc.json, version),
                  headers |-> IF acc.headers # <<>>
                              THEN <<WithoutKeys(acc.headers[1], CachingHeaders)>>
                              ELSE acc.headers,
                  hasSuppressedVersions |-> TRUE]
            ELSE acc)

\* modifyNpmInfoResponse(body, headers): the body it returns, the headers
\* object and state.hasSuppressedVersions after the call
modifyNpmInfoResponse(body, headers, suppressed) ==
  LET unchanged == [body |-> body, headers |-> headers, hasSuppressedVersions |-> suppressed]
      contentType == getHeaderValueAsString(headers, "content-type")
  IN IF contentType = Undefined \/ ~Includes(ToLowerCase(contentType), CT_json)
     THEN unchanged
     ELSE IF body.type \in {"empty", "text"} THEN unchanged
     ELSE LET bodyJson == body.json
          IN IF body.type = "json-other"
             THEN unchanged
             ELSE LET hasLatestTag == ~Falsy(ValueOf(bodyJson.distTags, Tag_latest))
                      versions == WithoutKeys(bodyJson.time, {Key_created, Key_modified})
                      isExempt == isPackageExemptFromAgeCheck(bodyJson.name)
                      throwing == ThrowingIterations(body, versions, isExempt)
                      looped == RemoveTooYoung(versions, isExempt,
                                  [json |-> bodyJson, headers |-> headers,
                                   hasSuppressedVersions |-> suppressed])
                      json == IF hasLatestTag
                                 /\ Falsy(ValueOf(looped.json.distTags, Tag_latest))
                              THEN [looped.json EXCEPT !.distTags =
                                      SetValue(@, Tag_latest,
                                               calculateLatestTag(looped.json.time))]
                              ELSE looped.json
                  IN IF throwing # {}
                     THEN \* the catch block returns the body it was given; what
                          \* the iterations before have done to the headers and
                          \* the flag deleteVersionFromJson has set remain
                          LET before == RemoveTooYoung(SubSeq(versions, 1, Min(throwing) - 1),
                                          isExempt,
                                          [json |-> bodyJson, headers |-> headers,
                                           hasSuppressedVersions |-> suppressed])
                          IN [body |-> body, headers |-> before.headers,
                              hasSuppressedVersions |-> TRUE]
                     ELSE [body |-> Stringify(json), headers |-> looped.headers,
                           hasSuppressedVersions |-> looped.hasSuppressedVersions]

\* ------------------------------------------- command line (cliArguments.js)
\* An argument is a sequence of pieces cut after the prefix --safe-chain- and
\* after the "=" of a flag with a value.
SAFE_CHAIN_ARG_PREFIX == <<"--safe-chain-">>

\* the state of cliArguments.js when the module is loaded
InitialCliState ==
  [loggingLevel |-> <<"silent">>, skipMinimumPackageAge |-> FALSE,
   minimumPackageAgeHours |-> Undefined, includePython |-> FALSE]

\* a variant of the test of initializeCliArguments that compares the
\* argument as it is written
IsSafeChainArg_SameCase(arg) == StartsWith(arg, SAFE_CHAIN_ARG_PREFIX)

\* arg.toLowerCase().startsWith(SAFE_CHAIN_ARG_PREFIX)
IsSafeChainArg(arg) == StartsWith(ToLowerCase(arg), SAFE_CHAIN_ARG_PREFIX)

IsRemainingArg(arg) == ~IsSafeChainArg(arg)

\* getLastArgEqualsValue(args, prefix)
getLastArgEqualsValue(args, prefix) ==
  LET hits == {i \in 1..Len(args) : StartsWith(ToLowerCase(args[i]), prefix)}
  IN IF hits = {} THEN Undefined
     ELSE SubSeq(args[Max(hits)], Len(prefix) + 1, Len(args[Max(hits)]))

\* hasFlagArg(args, flagName)
hasFlagArg(args, flagName) ==
  \E i \in 1..Len(args) : ToLowerCase(args[i]) = ToLowerCase(flagName)

\* initializeCliArguments(args): the state of the module after the call and
\* the arguments returned
initializeCliArguments(args, before) ==
  LET safeChainArgs == SelectSeq(args, IsSafeChainArg)
      remainingArgs == SelectSeq(args, IsRemainingArg)
      level == getLastArgEqualsValue(safeChainArgs, SAFE_CHAIN_ARG_PREFIX \o <<"logging=">>)
      value == getLastArgEqualsValue(safeChainArgs,
                 SAFE_CHAIN_ARG_PREFIX \o <<"minimum-package-age-hours=">>)
  IN [state |->
        [loggingLevel |-> IF Falsy(level) THEN <<"silent">> ELSE ToLowerCase(level),
         skipMinimumPackageAge |->
           hasFlagArg(safeChainArgs, SAFE_CHAIN_ARG_PREFIX \o <<"skip-minimum-package-age">>),
         minimumPackageAgeHours |-> IF Falsy(value) THEN Undefined ELSE value,
         includePython |-> hasFlagArg(args, <<"--include-python">>)],
      remainingArgs |-> remainingArgs]

\* ------------------------------------ environment of the child (registryProxy.js)
\* String.prototype.toUpperCase over the names of environment variables
EnvUpper(key) ==
  CASE key \in {"https_proxy", "Https_Proxy"} -> "HTTPS_PROXY"
    [] key = "global_agent_http_proxy" -> "GLOBAL_AGENT_HTTP_PROXY"
    [] key = "Node_Extra_Ca_Certs" -> "NODE_EXTRA_CA_CERTS"
    [] key = "Path" -> "PATH"
    [] OTHER -> key

\* getCaCertPath()
getCaCertPath == <<"/safe-chain/ca-cert.pem">>

\* getSafeChainProxyEnvironmentVariables(); port is state.port
getSafeChainProxyEnvironmentVariables(port) ==
  IF port = <<>> THEN <<>>
  ELSE << <<"HTTPS_PROXY", <<"http://localhost:", ToString(port[1])>>>>,
          <<"GLOBAL_AGENT_HTTP_PROXY", <<"http://localhost:", ToString(port[1])>>>>,
          <<"NODE_EXTRA_CA_CERTS", getCaCertPath>> >>

\* a variant of the loop of mergeSafeChainProxyEnvironmentVariables that
\* looks the key up as it is written
RECURSIVE CopyEnv_SameCase(_, _)
CopyEnv_SameCase(env, proxyEnv) ==
  IF env = <<>> THEN proxyEnv
  ELSE LET key == Head(env)[1]
       IN CopyEnv_SameCase(Tail(env),
            IF Falsy(ValueOf(proxyEnv, key)) /\ ~Falsy(Head(env)[2])
            THEN SetValue(proxyEnv, key, Head(env)[2])
            ELSE proxyEnv)

\* the loop of mergeSafeChainProxyEnvironmentVariables over Object.keys(env)
RECURSIVE CopyEnv(_, _)
CopyEnv(env, proxyEnv) ==
  IF env = <<>> THEN proxyEnv
  ELSE LET key == Head(env)[1]
           upperKey == EnvUpper(key)
       IN CopyEnv(Tail(env),
            IF Falsy(ValueOf(proxyEnv, upperKey)) /\ ~Falsy(Head(env)[2])
            THEN SetValue(proxyEnv, key, Head(env)[2])
            ELSE proxyEnv)

\* mergeSafeChainProxyEnvironmentVariables(env)
mergeSafeChainProxyEnvironmentVariables(env, port) ==
  CopyEnv(env, getSafeChainProxyEnvironmentVariables(port))

\* ------------------------------------------------------------ malware oracle
\* malwareDb.isMalware(name, version): the database the run has loaded
KnownMalware == { [name |-> <<"a">>, version |-> <<"1">>] }

isMalware(name, version) == [name |-> name, version |-> version] \in KnownMalware

\* ------------------------------------------- audit (scanning/audit/index.js)
MALWARE_STATUS_MALWARE == "malware"

InitialAuditStats == [totalPackages |-> 0, safePackages |-> 0, malwarePackages |-> 0]

\* changes.filter(change => change.type === "add" || change.type === "change")
IsAddOrChange(change) == change.type = "add" \/ change.type = "change"

FilterAddOrChange(changes) == SelectSeq(changes, IsAddOrChange)

\* the loop of getPackagesWithMalware, after the database is open
RECURSIVE PackagesWithMalware(_)
PackagesWithMalware(changes) ==
  IF changes = <<>> THEN <<>>
  ELSE LET change == Head(changes)
       IN (IF isMalware(change.name, change.version)
           THEN << [name |-> change.name, version |-> change.version,
                    status |-> MALWARE_STATUS_MALWARE] >>
           ELSE <<>>) \o PackagesWithMalware(Tail(changes))

\* malwarePackages.find(pkg => pkg.name === change.name && pkg.version === change.version)
FindMalwarePackage(malwarePackages, change) ==
  LET hits == {i \in 1..Len(malwarePackages) :
                 /\ malwarePackages[i].name = change.name
                 /\ malwarePackages[i].version = change.version}
  IN IF hits = {} THEN <<>> ELSE << malwarePackages[Min(hits)] >>

\* a variant of the loop whose malware branch forgets totalPackages
CountChange_NoTotal(stats, found) ==
  IF found
  THEN [stats EXCEPT !.malwarePackages = @ + 1]
  ELSE [stats EXCEPT !.safePackages = @ + 1, !.totalPackages = @ + 1]

\* the counter updates of one iteration of the loop of auditChanges
CountChange(stats, found) ==
  IF found
  THEN [stats EXCEPT !.malwarePackages = @ + 1, !.totalPackages = @ + 1]
  ELSE [stats EXCEPT !.safePackages = @ + 1, !.totalPackages = @ + 1]

\* the loop of auditChanges over all changes: the result and the counters
RECURSIVE AuditLoop(_, _, _)
AuditLoop(changes, malwarePackages, acc) ==
  IF changes = <<>> THEN acc
  ELSE LET change == Head(changes)
           malwarePackage == FindMalwarePackage(malwarePackages, change)
           found == malwarePackage # <<>>
           next ==
             [stats |-> CountChange(acc.stats, found),
              allowedChanges |->
                IF found THEN acc.allowedChanges ELSE Append(acc.allowedChanges, change),
              disallowedChanges |->
                IF found
                THEN Append(acc.disallowedChanges,
                            [name |-> change.name, version |-> change.version,
                             type |-> change.type, reason |-> malwarePackage[1].status])
                ELSE acc.disallowedChanges]
       IN AuditLoop(Tail(changes), malwarePackages, next)

AuditResultOf(acc) ==
  [allowedChanges |-> acc.allowedChanges,
   disallowedChanges |-> acc.disallowedChanges,
   isAllowed |-> Len(acc.disallowedChanges) = 0]

\* ---------------------------------------------------------------- inputs
\* Host names are sequences of pieces cut so that every registry name that
\* is a substring of another one is a subsequence of its pieces.
Host_npmjs == <<"registry.", "npmjs.org">>
Host_yarnpkg == <<"registry.", "yarnpkg.com">>
Host_files_pythonhosted == <<"files.", "pythonhosted.org">>
Host_pypi == <<"pypi.org">>
Host_pypi_python == <<"pypi.", "python.org">>
Host_pythonhosted == <<"pythonhosted.org">>

\* the hosts the child connects to
Hosts == {Host_npmjs, Host_files_pythonhosted}

\* hosts that are no registry: two whose names contain a registry's name, one
\* that does not
Host_npmjs_lookalike == <<"registry.npmjs.org", ".example.com">>
Host_pypi_lookalike == <<"not", "pypi.org">>
Host_github == <<"github.com">>

\* the hosts a CONNECT can name
ConnectHosts ==
  {Host_npmjs, Host_yarnpkg, Host_files_pythonhosted, Host_pypi, Host_pypi_python,
   Host_pythonhosted, Host_npmjs_lookalike, Host_pypi_lookalike, Host_github}

Path_a1_tgz == <<"/", "a", "/", "-", "/", "a", "-", "1", ".", "t", "g", "z">>
Path_b1_tgz == <<"/", "b", "/", "-", "/", "b", "-", "1", ".", "t", "g", "z">>
Path_a == <<"/", "a">>
Path_a1_targz == <<"/", "p", "/", "a", "-", "1", ".", "t", "a", "r", ".", "g", "z">>
Path_b1_whl == <<"/", "p", "/", "b", "-", "1", "-", "p", "y", ".", "w", "h", "l">>
Path_simple == <<"/", "s", "/">>

\* npm URLs of the three kinds, with and without query or fragment
Path_special == <<"/", "-", "/", "s">>
Path_a_query == <<"/", "a", "?", "/", "-", "/", "b", ".", "t", "g", "z">>
Path_a1_tgz_frag == <<"/", "a", "/", "-", "/", "a", "-", "1", ".", "t", "g", "z", "#", "x">>
ForwardUrls ==
  {Path_a, Path_a_query, Path_special, Path_a1_tgz, Path_a1_tgz_frag, Undefined}

\* the headers of a client request (req.headers): those of an install, those
\* of a request for the full packument, and a request without accept and host
Headers_install ==
  << <<"host", <<"registry.", "npmjs.org">>>>, <<"accept", Accept_compact>>,
     <<"user-agent", <<"npm">>>> >>
Headers_full == << <<"host", <<"registry.", "npmjs.org">>>>, <<"accept", Accept_json>> >>
Headers_bare == << <<"user-agent", <<"npm">>>> >>
ClientHeaders == {Headers_install, Headers_full, Headers_bare}

\* the request URLs (req.url) the child of each ecosystem sends; Undefined is
\* a request without URL
RequestUrls(eco) ==
  IF eco = "js" THEN {Path_a1_tgz, Path_b1_tgz, Path_a, Undefined}
  ELSE {Path_a1_targz, Path_b1_whl, Path_simple, Undefined}

\* the PackageChange values a dependency resolver reports
Changes ==
  [name : {<<"a">>, <<"b">>}, version : {<<"1">>}, type : {"add", "change", "remove"}]

RECURSIVE SeqsUpTo(_, _)
SeqsUpTo(S, n) ==
  IF n = 0 THEN {<<>>}
  ELSE LET shorter == SeqsUpTo(S, n - 1)
       IN shorter \cup {Append(q, x) : q \in {r \in shorter : Len(r) = n - 1}, x \in S}

ChangeLists == SeqsUpTo(Changes, MaxChanges)

Ports == {40001}

\* the file names of pip downloads: a name, a "-" (written as it is, left
\* out or percent-encoded), a version, tags and an extension
PipFilenames ==
  { n \o d \o v \o t \o e :
      n \in {<<>>, <<"a">>, <<"a", "-", "b">>, <<"a", "_", "b">>},
      d \in {<<"-">>, <<>>, <<"%", "2", "D">>},
      v \in {<<>>, <<"1">>, <<"1", ".", "0">>, Ch_latest},
      t \in {<<>>, <<"-", "t">>, <<"-", "t", "-", "u">>},
      e \in SdistExtensions \cup {Ch_whl, <<".", "T", "A", "R", ".", "G", "Z">>,
                                  <<".", "W", "H", "L">>, <<".", "t", "x", "t">>} }

\* the arguments of a command line, and the command lines made of them
ArgChoices ==
  { <<"install">>, <<"--include-python">>, <<"--safe-chain">>,
    <<"--safe-chain-", "foo">>,
    <<"--SAFE-CHAIN-", "SKIP-MINIMUM-PACKAGE-AGE">>,
    <<"--safe-chain-", "logging=", "VERBOSE">>,
    <<"--safe-chain-", "minimum-package-age-hours=", "1">>,
    <<"--Safe-Chain-", "Minimum-Package-Age-Hours=", "48">> }
ArgLists == SeqsUpTo(ArgChoices, MaxArgs)

\* the variables a caller's environment can hold (process.env), and the
\* environments made of them, in every order
CallerVariables ==
  { <<"PATH", <<"/bin">>>>, <<"https_proxy", <<"http://corp:3128">>>>,
    <<"HTTPS_PROXY", <<"http://corp:3128">>>>, <<"Node_Extra_Ca_Certs", <<"/corp.pem">>>>,
    <<"global_agent_http_proxy", <<"http://corp:3128">>>>, <<"EMPTY", <<>>>>,
    <<"Path", <<"/usr/bin">>>> }
CallerEnvs ==
  {env \in SeqsUpTo(CallerVariables, MaxEnv) :
     \A i, j \in 1..Len(env) : i # j => env[i][1] # env[j][1]}

\* body modifiers a setup function may register, in every order
BodyModifiers == {"f1", "f2", "f3"}
BodyModifierLists == SeqsUpTo(BodyModifiers, MaxFuncs)

\* the files runPip may touch: the pip configuration of the caller, a path
\* at which there is no file, and the temporary file in os.tmpdir()
UserConfigPath == "/home/pip.ini"
MissingConfigPath == "/home/missing.ini"
TempConfigPath == "/tmp/safe-chain-pip-1.ini"
ConfigPaths == {UserConfigPath, MissingConfigPath, TempConfigPath}

\* the [global] sections of the caller's pip configuration
UserConfigs ==
  { <<>>, << <<"timeout", <<"5">>>> >>, << <<"cert", <<"/corp.pem">>>> >>,
    << <<"proxy", <<"http://corp:3128">>>> >>,
    << <<"cert", <<"/corp.pem">>>>, <<"proxy", <<"http://corp:3128">>>> >> }

\* the environments pip is wrapped in
PipCallerEnvs ==
  { proxy \o config :
      proxy \in {<<>>, << <<"HTTPS_PROXY", <<"http://corp:3128">>>> >>},
      config \in {<<>>, << <<"PIP_CONFIG_FILE", <<UserConfigPath>>>> >>,
                  << <<"PIP_CONFIG_FILE", <<MissingConfigPath>>>> >>} }

\* what safeSpawn rejects with: an error that carries a status, or the error
\* of a command that could not be started
SpawnErrors == {<<2>>, <<>>}

\* the addresses server.listen(0, callback) binds without a host argument:
\* the unspecified IPv6 address, or the unspecified IPv4 address on a
\* machine without IPv6
ListenAddresses == {"::", "0.0.0.0"}
ChildStatuses == {0, 1, 2}

\* the versions, timestamps and names of the packuments an upstream sends:
\* two full releases and a prerelease; a timestamp before the cutoff, one at
\* the cutoff and one after it, in one format, as the registry writes them
V1 == <<"1.0.0">>
V2 == <<"2.0.0">>
V3rc == <<"3.0.0", "-", "rc">>
T_old == <<"0", "9">>
T_cut == <<"2", "4">>
T_young == <<"2", "5">>
Timestamps == {T_old, T_cut, T_young}
Name_a == <<"a">>
Name_exempt == <<"d2l-npm-login">>
Name_exempt_scoped == <<"@", "brightspace-ui", "/", "core">>
Name_scoped == <<"@", "x", "/", "d2l-npm-login">>
Names == {Name_a, Name_exempt, Name_exempt_scoped, Name_scoped}

\* no entry or one entry <<key, value>> with a value of the set
EntryChoices(key, values) == {<<>>} \cup { << <<key, v>> >> : v \in values }

\* the packuments: time holds created, modified and an entry for any of the
\* versions, in the order of publication; versions and dist-tags likewise
Packuments ==
  { [name |-> name,
     time |-> << <<Key_created, T_old>>, <<Key_modified, T_young>> >> \o t1 \o t2 \o t3,
     versions |-> e1 \o e2 \o e3,
     distTags |-> latest \o beta] :
       name \in Names,
       t1 \in EntryChoices(V1, Timestamps), t2 \in EntryChoices(V2, Timestamps),
       t3 \in EntryChoices(V3rc, Timestamps),
       e1 \in EntryChoices(V1, {<<"{}">>}), e2 \in EntryChoices(V2, {<<"{}">>}),
       e3 \in EntryChoices(V3rc, {<<"{}">>}),
       latest \in EntryChoices(Tag_latest, {V1, V2, V3rc}),
       beta \in EntryChoices("beta", {V1, V2, V3rc}) }

\* the headers of an upstream response (proxyRes.headers)
JsonHeaders ==
  << <<"content-type", CT_json>>, <<"etag", <<"W/1">>>>,
     <<"last-modified", <<"yesterday">>>>, <<"cache-control", <<"max-age=300">>>> >>
HtmlHeaders ==
  << <<"content-type", CT_html>>, <<"etag", <<"W/1">>>>,
     <<"last-modified", <<"yesterday">>>>, <<"cache-control", <<"max-age=300">>>> >>

\* a packument whose latest version is too young
YoungPackument ==
  [name |-> Name_a,
   time |-> << <<Key_created, T_old>>, <<Key_modified, T_young>>,
               <<V1, T_old>>, <<V2, T_young>> >>,
   versions |-> << <<V1, <<"{}">>>>, <<V2, <<"{}">>>> >>,
   distTags |-> << <<Tag_latest, V2>> >>]

\* a packument whose versions are all old enough, and a young one of an
\* exempt package
OldPackument ==
  [YoungPackument EXCEPT !.time = << <<Key_created, T_old>>, <<Key_modified, T_cut>>,
                                     <<V1, T_old>>, <<V2, T_cut>> >>]
ExemptPackument == [YoungPackument EXCEPT !.name = Name_exempt]

\* gzipSync and gunzipSync
gzipSync(buffer) == [type |-> "gzip", content |-> buffer]
gunzipSync(buffer) == buffer.content

\* Buffer.length of a body, in units: a property of `time`, of `versions` or
\* of `dist-tags` serialises to one unit, the rest of the document to one,
\* so that a document that has lost properties is shorter. The bytes of
\* JSON.stringify are counted as long as the bytes the upstream sent for the
\* same value, and gzip is a function of its input.
RECURSIVE ByteLength(_)
ByteLength(buffer) ==
  CASE buffer.type = "gzip" -> 1 + ByteLength(buffer.content)
    [] buffer.type = "empty" -> 0
    [] buffer.type \in {"text", "json-other", "message"} -> 1
    [] OTHER -> 1 + Len(buffer.json.time) + Len(buffer.json.versions)
                  + Len(WithoutUndefined(buffer.json.distTags))

\* an upstream response that announces the length of its body
WithContentLength(proxyRes) ==
  [proxyRes EXCEPT !.headers =
     Append(@, <<"content-length", <<ToString(ByteLength(proxyRes.body))>>>>)]

\* the responses of an upstream (proxyRes): status code, headers and body;
\* <<>> is a response without status code
UpstreamResponses ==
  { WithContentLength([statusCode |-> <<200>>, headers |-> JsonHeaders, body |-> JsonBody(p, TRUE)]) :
      p \in {YoungPackument, OldPackument} }
  \cup
  { [statusCode |-> <<200>>, headers |-> JsonHeaders, body |-> JsonBody(ExemptPackument, TRUE)],
    [statusCode |-> <<200>>, headers |-> HtmlHeaders, body |-> TextBody],
    WithContentLength(
      [statusCode |-> <<200>>, headers |-> Append(JsonHeaders, <<"content-encoding", <<"gzip">>>>),
       body |-> gzipSync(JsonBody(YoungPackument, TRUE))]),
    [statusCode |-> <<>>, headers |-> JsonHeaders, body |-> EmptyBody] }

\* packuments that are JSON of the wrong shape: `versions` is the string "x"
\* and `time` has an entry for the version 0; `dist-tags` is the string "1"
\* and `time` has entries for the versions 0 and 1. Object.entries lists the
\* keys that are indices first.
V_0 == <<"0">>
V_1 == <<"1">>
VersionsStringPackument ==
  [name |-> Name_a,
   time |-> << <<V_0, T_young>>, <<Key_created, T_old>>, <<Key_modified, T_young>> >>,
   versions |-> << <<V_0, <<"x">>>> >>,
   distTags |-> << <<Tag_latest, V_0>> >>]
DistTagsStringPackument ==
  [name |-> Name_a,
   time |-> << <<V_0, T_young>>, <<V_1, T_young>>,
               <<Key_created, T_old>>, <<Key_modified, T_young>> >>,
   versions |-> << <<V_0, <<"{}">>>>, <<V_1, <<"{}">>>> >>,
   distTags |-> << <<"0", V_1>> >>]

\* the responses that fail a precondition of the rewriter or make it throw
FailingRewriteInputs ==
  [body : {EmptyBody, TextBody, OtherJsonBody, VersionsStringBody(VersionsStringPackument),
           DistTagsStringBody(DistTagsStringPackument)},
   headers : {<<JsonHeaders>>, <<HtmlHeaders>>, << <<<<"content-type", CT_json>>>> >>, <<>>}]
  \cup [body : {JsonBody(YoungPackument, TRUE), JsonBody(OldPackument, TRUE)},
        headers : {<<HtmlHeaders>>, <<>>}]

\* the arguments of modifyNpmInfoResponse: every packument as JSON, and the
\* other bodies and headers
RewriteInputs ==
  { [body |-> JsonBody(p, TRUE), headers |-> <<JsonHeaders>>] : p \in Packuments }
  \cup [body : {EmptyBody, TextBody, OtherJsonBody, JsonBody(YoungPackument, TRUE)},
        headers : {<<JsonHeaders>>, <<HtmlHeaders>>, <<>>}]

\* ----------------------------------------------------------------- state
VARIABLES
  ecoSystem,   \* settings.js ecosystemSettings.ecoSystem
  cli,         \* cliArguments.js state
  main,        \* main(): its position, what it returns, what it has called
  scan,        \* scanCommand(): the locals timedOut and audit, the async scan
  server,      \* the proxy's listening server
  state,       \* registryProxy.js state: port, blockedRequests
  tunnels,     \* the MITM tunnels set up so far, each with its interceptor
  blind,       \* the hosts tunnelled blind so far
  requests,    \* the HTTPS requests received on MITM tunnels
  emitted,     \* the malwareBlocked events emitted so far, in order
  auditStats,  \* audit/index.js auditStats
  hasSuppressedVersions,  \* modifyNpmInfo.js state.hasSuppressedVersions
  rewrite,     \* one call of modifyNpmInfoResponse: its arguments, its result
  address,     \* server.address() of the proxy's server
  call,        \* one call of a function: its name, its input, its result
  pip          \* one call of runPip, with the files it touches

vars == <<ecoSystem, cli, main, scan, server, state, tunnels, blind, requests, emitted,
          auditStats, hasSuppressedVersions, rewrite, address, call, pip>>

\* no function call is under way
NoCall == [pc |-> "none"]

\* runPip has not been called
NoPip == [pc |-> "none"]

\* no call of modifyNpmInfoResponse is under way
NoRewrite == [pc |-> "none"]

IdleScan ==
  [pc |-> "idle", timedOut |-> FALSE, changes |-> <<>>, malwarePackages |-> <<>>,
   auditResult |-> <<>>, audit |-> <<>>]

Init ==
  /\ ecoSystem \in {"js", "py"}
  /\ cli = [skipMinimumPackageAge |-> FALSE]
  /\ main = [pc |-> "init", result |-> <<>>, returned |-> <<>>, runCommandCalls |-> 0,
             childStatus |-> <<>>, blockedAtExit |-> 0, scanOutcome |-> "none",
             stopServerCalls |-> 0, stopServerResolved |-> 0, stoppedBy |-> "none",
             suppressedHint |-> FALSE, buffering |-> FALSE]
  /\ scan = IdleScan
  /\ server = "created"
  /\ state = [port |-> <<>>, blockedRequests |-> <<>>]
  /\ tunnels = <<>>
  /\ blind = {}
  /\ requests = <<>>
  /\ emitted = <<>>
  /\ auditStats = InitialAuditStats
  /\ hasSuppressedVersions = FALSE
  /\ rewrite = NoRewrite
  /\ address = <<>>
  /\ call = NoCall
  /\ pip = NoPip

\* ---------------------------------------------------------- main (main.js)
\* a variant of skipMinimumPackageAge that never answers true
skipMinimumPackageAge_Never == FALSE

\* settings.js skipMinimumPackageAge()
skipMinimumPackageAge == IF cli.skipMinimumPackageAge = TRUE THEN TRUE ELSE FALSE

\* isSupportedCommand of the current package manager: pip and uv answer
\* false; what a JavaScript package manager answers depends on the command
SupportedAnswers(eco) == IF eco = "py" THEN {FALSE} ELSE {TRUE, FALSE}

\* --safe-chain-skip-minimum-package-age given or not; it is read by the npm
\* interceptor alone
SkipFlags(eco) == IF eco = "js" THEN {TRUE, FALSE} ELSE {FALSE}

\* shouldScanCommand(args)
shouldScanCommand(argsEmpty, supported) == IF argsEmpty THEN FALSE ELSE supported

\* the finally block of main: stopServer is called and main waits for it
EnterFinally(m, result) ==
  [m EXCEPT !.pc = "stopServer", !.result = <<result>>,
            !.stopServerCalls = @ + 1]

\* ui.startBufferingLogs(); getPackageManager().runCommand(args)
CallRunCommand(m) ==
  [m EXCEPT !.pc = "runCommand", !.runCommandCalls = @ + 1, !.buffering = TRUE]

\* main up to `await proxy.startServer()`
MainStart ==
  /\ main.pc = "init"
  /\ main' = [main EXCEPT !.pc = "startServer"]
  /\ server' = "starting"
  /\ UNCHANGED <<call, pip, address, rewrite, hasSuppressedVersions, ecoSystem, cli, scan, state, tunnels, blind, requests, emitted, auditStats>>

\* startServer resolves; main runs up to its next await: into scanCommand,
\* whose async scan calls getDependencyUpdatesForCommand, or into runCommand
StartServerResolves(addresses) ==
  /\ main.pc = "startServer"
  /\ \E port \in Ports, host \in addresses :
       /\ address' = <<[address |-> host, port |-> port]>>
       /\ state' = [state EXCEPT !.port = <<address'[1].port>>]
  /\ server' = "listening"
  /\ \E skip \in SkipFlags(ecoSystem) : cli' = [cli EXCEPT !.skipMinimumPackageAge = skip]
  /\ \E argsEmpty \in BOOLEAN, supported \in SupportedAnswers(ecoSystem) :
       IF shouldScanCommand(argsEmpty, supported)
       THEN /\ main' = [main EXCEPT !.pc = "scanCommand"]
            /\ scan' = [IdleScan EXCEPT !.pc = "getDependencyUpdatesForCommand"]
       ELSE /\ main' = CallRunCommand([main EXCEPT !.scanOutcome = "skipped"])
            /\ scan' = scan
  /\ UNCHANGED <<call, pip, rewrite, hasSuppressedVersions, ecoSystem, tunnels, blind, requests, emitted, auditStats>>

\* startServer rejects: main rejects before its try block
StartServerRejects ==
  /\ main.pc = "startServer"
  /\ main' = [main EXCEPT !.pc = "rejected"]
  /\ server' = "closed"
  /\ UNCHANGED <<call, pip, address, rewrite, hasSuppressedVersions, ecoSystem, cli, scan, state, tunnels, blind, requests, emitted, auditStats>>

\* ----------------------------------------- scanCommand (scanning/index.js)
\* auditChanges up to its first await: getPackagesWithMalware returns at once
\* for an empty list and opens the malware database otherwise
AuditFirstAwait(changes) ==
  IF Len(FilterAddOrChange(changes)) = 0 THEN "getPackagesWithMalware"
  ELSE "openMalwareDatabase"

\* a variant of scanCommand that returns 0 whatever the audit says
ScanCommandOutcome_IgnoresAudit(timedOut, audit) ==
  IF timedOut THEN "throw" ELSE "return 0"

\* a variant of scanCommand without `if (timedOut) throw`
ScanCommandOutcome_IgnoresTimeout(timedOut, audit) ==
  IF audit = <<>> \/ audit[1].isAllowed THEN "return 0" ELSE "return 1"

\* scanCommand after `await Promise.race(...)`: it throws when timedOut is
\* set, returns 0 without audit or with an allowed one, and 1 otherwise
ScanCommandOutcome(timedOut, audit) ==
  IF timedOut THEN "throw"
  ELSE IF audit = <<>> \/ audit[1].isAllowed THEN "return 0"
  ELSE "return 1"

\* a variant of main whose early return leaves without the finally block
MainAfterScanCommand_NoFinally(m, outcome) ==
  IF outcome = "throw" THEN EnterFinally([m EXCEPT !.scanOutcome = "timeout"], 1)
  ELSE IF outcome = "return 1"
  THEN [m EXCEPT !.scanOutcome = "disallowed", !.pc = "returned",
                 !.result = <<1>>, !.returned = <<1>>]
  ELSE CallRunCommand([m EXCEPT !.scanOutcome = "allowed"])

\* main after `await scanCommand(args)`: a throw is caught and answered with
\* 1, a result other than 0 is returned, both through the finally block;
\* after 0 main runs the child
MainAfterScanCommand(m, outcome) ==
  IF outcome = "throw" THEN EnterFinally([m EXCEPT !.scanOutcome = "timeout"], 1)
  ELSE IF outcome = "return 1" THEN EnterFinally([m EXCEPT !.scanOutcome = "disallowed"], 1)
  ELSE CallRunCommand([m EXCEPT !.scanOutcome = "allowed"])

\* the server once main has taken a step: stopServer closes the listener
ServerAfter(m) == IF m.pc = "stopServer" THEN "closing" ELSE "listening"

\* the async scan is running as long as the process is
ScanRuns == main.pc \notin {"init", "returned", "rejected"}

\* a variant of the async scan without `if (timedOut) return`
ScanAfterResolver_NoCheck(sc, changes) ==
  [sc EXCEPT !.pc = AuditFirstAwait(changes), !.changes = changes]

\* the async scan after `await getDependencyUpdatesForCommand(args)`: it
\* returns when timedOut is set and calls auditChanges(changes) otherwise
ScanAfterResolver(sc, changes) ==
  IF sc.timedOut
  THEN [sc EXCEPT !.pc = "discarded"]
  ELSE [sc EXCEPT !.pc = AuditFirstAwait(changes), !.changes = changes]

\* getDependencyUpdatesForCommand resolves with the changes
ResolverReturns ==
  /\ ScanRuns
  /\ scan.pc = "getDependencyUpdatesForCommand"
  /\ \E changes \in ChangeLists : scan' = ScanAfterResolver(scan, changes)
  /\ UNCHANGED <<call, pip, address, rewrite, hasSuppressedVersions, ecoSystem, cli, main, server, state, tunnels, blind, requests, emitted, auditStats>>

\* openMalwareDatabase resolves; getPackagesWithMalware asks the oracle
ScanDbOpened ==
  /\ ScanRuns
  /\ scan.pc = "openMalwareDatabase"
  /\ scan' = [scan EXCEPT !.pc = "getPackagesWithMalware",
                          !.malwarePackages = PackagesWithMalware(FilterAddOrChange(scan.changes))]
  /\ UNCHANGED <<call, pip, address, rewrite, hasSuppressedVersions, ecoSystem, cli, main, server, state, tunnels, blind, requests, emitted, auditStats>>

\* auditChanges resumes with the malware packages and runs its loop
ScanAuditCounts ==
  /\ ScanRuns
  /\ scan.pc = "getPackagesWithMalware"
  /\ LET acc == AuditLoop(scan.changes, scan.malwarePackages,
                          [stats |-> auditStats, allowedChanges |-> <<>>,
                           disallowedChanges |-> <<>>])
     IN /\ auditStats' = acc.stats
        /\ scan' = [scan EXCEPT !.pc = "auditChanges", !.auditResult = <<AuditResultOf(acc)>>]
  /\ UNCHANGED <<call, pip, address, rewrite, hasSuppressedVersions, ecoSystem, cli, main, server, state, tunnels, blind, requests, emitted>>

\* the scan assigns audit and settles; when the race is still open it is won,
\* scanCommand goes on and main with it, up to its next await. An allowed
\* audit is forgotten with the locals of scanCommand.
ScanSettles ==
  /\ ScanRuns
  /\ scan.pc = "auditChanges"
  /\ scan' = IF main.pc = "scanCommand" /\ scan.auditResult[1].isAllowed THEN IdleScan
             ELSE [scan EXCEPT !.pc = "settled", !.audit = scan.auditResult]
  /\ IF main.pc = "scanCommand"
     THEN /\ main' = MainAfterScanCommand(main,
                       ScanCommandOutcome(scan.timedOut, scan.auditResult))
          /\ server' = ServerAfter(main')
     ELSE UNCHANGED <<main, server>>
  /\ UNCHANGED <<call, pip, address, rewrite, hasSuppressedVersions, ecoSystem, cli, state, tunnels, blind, requests, emitted, auditStats>>

\* the timer of getScanTimeout() fires while the race is open: timedOut is
\* set and the race is won by the timer; scanCommand goes on and main with it
ScanTimeout ==
  /\ main.pc = "scanCommand"
  /\ scan' = [scan EXCEPT !.timedOut = TRUE]
  /\ main' = MainAfterScanCommand(main, ScanCommandOutcome(TRUE, scan.audit))
  /\ server' = ServerAfter(main')
  /\ UNCHANGED <<call, pip, address, rewrite, hasSuppressedVersions, ecoSystem, cli, state, tunnels, blind, requests, emitted, auditStats>>

\* the resolver or the malware database rejects: the scan rejects, and so do
\* an open race and scanCommand; main catches
ScanRejects ==
  /\ ScanRuns
  /\ scan.pc \in {"getDependencyUpdatesForCommand", "openMalwareDatabase"}
  /\ scan' = [scan EXCEPT !.pc = "rejected"]
  /\ IF main.pc = "scanCommand"
     THEN /\ main' = EnterFinally([main EXCEPT !.scanOutcome = "error"], 1)
          /\ server' = "closing"
     ELSE UNCHANGED <<main, server>>
  /\ UNCHANGED <<call, pip, address, rewrite, hasSuppressedVersions, ecoSystem, cli, state, tunnels, blind, requests, emitted, auditStats>>

\* ------------------------------------------------- main after the child
\* registryProxy.js verifyNoMaliciousPackages
verifyNoMaliciousPackages(st) == Len(st.blockedRequests) = 0

\* a variant of main that returns the child's status without looking at the
\* blocked requests
MainAfterChild_StatusOnly(noMaliciousPackages, status) == status

\* a variant of main that returns 0 whenever nothing was blocked
MainAfterChild_Success(noMaliciousPackages, status) ==
  IF ~noMaliciousPackages THEN 1 ELSE 0

\* what main returns once runCommand has resolved
MainAfterChild(noMaliciousPackages, status) ==
  IF ~noMaliciousPackages THEN 1 ELSE status

\* a variant of main that prints the hint also after it has printed the
\* list of blocked packages
SuppressedHint_AlsoWhenBlocked(noMaliciousPackages, suppressed) == suppressed

\* main once runCommand has resolved: the hint on suppressed versions is
\* printed after verifyNoMaliciousPackages() has answered true, when
\* proxy.hasSuppressedVersions() does
SuppressedHint(noMaliciousPackages, suppressed) == noMaliciousPackages /\ suppressed

\* the child exits: runCommand resolves with its status
ChildExits ==
  /\ main.pc = "runCommand"
  /\ \E status \in ChildStatuses :
       main' = EnterFinally([main EXCEPT !.childStatus = <<status>>,
                                         !.blockedAtExit = Len(state.blockedRequests),
                                         !.suppressedHint =
                                           SuppressedHint(verifyNoMaliciousPackages(state),
                                                          hasSuppressedVersions),
                                         !.buffering = FALSE],
                            MainAfterChild(verifyNoMaliciousPackages(state), status))
  /\ server' = "closing"
  /\ UNCHANGED <<call, pip, address, rewrite, hasSuppressedVersions, ecoSystem, cli, scan, state, tunnels, blind, requests, emitted, auditStats>>

\* runCommand rejects: main catches
RunCommandThrows ==
  /\ main.pc = "runCommand"
  /\ main' = EnterFinally(main, 1)
  /\ server' = "closing"
  /\ UNCHANGED <<call, pip, address, rewrite, hasSuppressedVersions, ecoSystem, cli, scan, state, tunnels, blind, requests, emitted, auditStats>>

\* the promise of stopServer resolves, by the close callback, the catch block
\* or the timer; main returns
StopServerSettles(by) ==
  /\ main' = [main EXCEPT !.pc = "returned", !.returned = main.result,
                          !.stopServerResolved = @ + 1, !.stoppedBy = by]
  /\ server' = "closed"
  /\ UNCHANGED <<call, pip, address, rewrite, hasSuppressedVersions, ecoSystem, cli, scan, state, tunnels, blind, requests, emitted, auditStats>>

\* the callback of server.close: the listener has closed and no connection is
\* open any more. The tunnels of the child are not ended by the proxy, so
\* the callback is not called while there is one.
StopServerCloseCallback ==
  /\ main.pc = "stopServer"
  /\ tunnels = <<>>
  /\ blind = {}
  /\ StopServerSettles("close")

\* server.close throws: the catch block resolves
StopServerCloseThrows ==
  /\ main.pc = "stopServer"
  /\ StopServerSettles("catch")

SERVER_STOP_TIMEOUT_MS == 1000

\* a variant of stopServer that sets no timer
StopTimerSet_Never(m) == FALSE

\* the timer setTimeout(() => resolve(), SERVER_STOP_TIMEOUT_MS) is set from
\* the call of stopServer until the promise has resolved
StopTimerSet(m) == m.pc = "stopServer"

\* the timer fires
StopServerTimeout ==
  /\ StopTimerSet(main)
  /\ StopServerSettles("timeout")

\* stopServer resolves; main returns
StopServerResolves ==
  \/ StopServerCloseCallback
  \/ StopServerCloseThrows
  \/ StopServerTimeout

\* ------------------------------- ecosystem router and interceptor builder
knownJsRegistries == <<Host_npmjs, Host_yarnpkg>>
knownPipRegistries == <<Host_files_pythonhosted, Host_pypi, Host_pypi_python, Host_pythonhosted>>

\* known.find(reg => url.includes(reg)); <<>> when nothing is found
FindRegistry(known, url) ==
  LET hits == {i \in 1..Len(known) : Includes(url, known[i])}
  IN IF hits = {} THEN <<>> ELSE known[Min(hits)]

\* createInterceptorForUrl(url): the kind of interceptor and its registry
createInterceptorForUrl(eco, url) ==
  LET registry == IF eco = "js" THEN FindRegistry(knownJsRegistries, url)
                  ELSE IF eco = "py" THEN FindRegistry(knownPipRegistries, url)
                  ELSE <<>>
  IN [kind |-> IF registry = <<>> THEN "none" ELSE IF eco = "js" THEN "npm" ELSE "pip",
      registry |-> registry]

\* createRequestContext: the fresh per-request context
NewContext ==
  [blockResponse |-> <<>>, reqheaderModificationFuncs |-> <<>>, modifyBodyFuncs |-> <<>>]

\* blockMalwareSetup: the block response it stores
BlockResponse == [statusCode |-> 403, message |-> "Forbidden - blocked by safe-chain"]

\* blockMalwareSetup: the event it emits
MalwareBlockedEvent(packageName, version, targetUrl) ==
  [packageName |-> packageName, version |-> version, targetUrl |-> targetUrl,
   timestamp |-> "Date.now()"]

\* the property `key` of an event object, undefined when it has none
EventField(event, key) == IF key \in DOMAIN event THEN event[key] ELSE Undefined

\* the listener handleConnect subscribes: onMalwareBlocked(event.packageName,
\* event.version, event.url) pushes one entry
onMalwareBlocked(blockedRequests, event) ==
  Append(blockedRequests,
         [packageName |-> EventField(event, "packageName"),
          version |-> EventField(event, "version"),
          url |-> EventField(event, "url")])

\* a variant of eventEmitter.emit whose listeners have not run when it
\* returns
EmitMalwareBlocked_Later(listeners, event, blockedRequests) == blockedRequests

\* eventEmitter.emit: every listener of the interceptor runs, in order
RECURSIVE EmitMalwareBlocked(_, _, _)
EmitMalwareBlocked(listeners, event, blockedRequests) ==
  IF listeners = <<>> THEN blockedRequests
  ELSE EmitMalwareBlocked(Tail(listeners), event,
                          onMalwareBlocked(blockedRequests, event))

\* a variant of handleConnect that subscribes its listener twice
ConnectListeners_Twice == <<"onMalwareBlocked", "onMalwareBlocked">>

\* the listeners handleConnect subscribes on the interceptor of a new tunnel
ConnectListeners == <<"onMalwareBlocked">>

\* the setup function of buildNpmInterceptor / buildPipInterceptor before
\* its await: the package parsed from the target URL
ParsePackage(kind, targetUrl, registry) ==
  IF kind = "npm" THEN parseNpmPackageUrl(targetUrl, registry)
  ELSE parsePipPackageFromUrl(targetUrl, registry)

\* a variant of isMalwarePackage that audits whatever it is given
NeedsOracle_Always(pkg) == TRUE

\* isMalwarePackage: false at once without name or version
NeedsOracle(pkg) == ~(Falsy(pkg.packageName) \/ Falsy(pkg.version))

\* a variant of isMalwarePackage that answers with isAllowed itself
isMalwarePackage_Inverted(auditResult) == auditResult.isAllowed

\* isMalwarePackage: its answer from the result of auditChanges
isMalwarePackage(auditResult) == ~auditResult.isAllowed

\* the setup function after `await isMalwarePackage(...)`: the context
SetupContext(kind, ctx, targetUrl, malware) ==
  LET blocked == IF malware THEN [ctx EXCEPT !.blockResponse = <<BlockResponse>>] ELSE ctx
  IN IF kind = "npm" /\ ~skipMinimumPackageAge /\ isPackageInfoUrl(targetUrl)
     THEN [blocked EXCEPT
             !.reqheaderModificationFuncs = Append(@, "modifyNpmInfoRequestHeaders"),
             !.modifyBodyFuncs = Append(@, "modifyNpmInfoResponse")]
     ELSE blocked

\* requestContext.build(): the handler
BuildHandler(ctx) ==
  [blockResponse |-> ctx.blockResponse,
   reqheaderModificationFuncs |-> ctx.reqheaderModificationFuncs,
   modifyBodyFuncs |-> ctx.modifyBodyFuncs]

\* handler.modifiesResponse()
modifiesResponse(handler) == Len(handler.modifyBodyFuncs) > 0

\* ------------------------------------------- MITM server (mitmRequestHandler.js)
Ch_http == <<"h", "t", "t", "p", ":", "/", "/">>
Ch_https == <<"h", "t", "t", "p", "s", ":", "/", "/">>

\* getRequestPathAndQuery: an absolute URL loses its scheme and authority
getRequestPathAndQuery(url) ==
  IF StartsWith(url, Ch_http) \/ StartsWith(url, Ch_https)
  THEN LET afterScheme == IF StartsWith(url, Ch_https)
                          THEN SubSeq(url, Len(Ch_https) + 1, Len(url))
                          ELSE SubSeq(url, Len(Ch_http) + 1, Len(url))
           slash == IndexOf(afterScheme, "/")
       IN IF slash < 0 THEN <<"/">> ELSE SubSeq(afterScheme, slash + 1, Len(afterScheme))
  ELSE url

NoUrl == [host |-> <<>>, path |-> <<>>]

\* handleRequest answers a blocked request from the block response
BlockedAnswer(blockResponse) ==
  [statusCode |-> blockResponse.statusCode, statusMessage |-> blockResponse.message,
   body |-> blockResponse.message]

BadRequestAnswer ==
  [statusCode |-> 400, statusMessage |-> "Bad Request", body |-> "Bad Request: Missing URL"]

\* the handler's modifyRequestHeaders: every registered function, in order
RECURSIVE modifyRequestHeaders(_, _)
modifyRequestHeaders(funcs, headers) ==
  IF funcs = <<>> THEN headers
  ELSE modifyRequestHeaders(Tail(funcs), modifyNpmInfoRequestHeaders(headers))

\* func(body, headers) for a registered body modifier: modifyNpmInfoResponse,
\* or a modifier of which only its name is known, whose result is written as
\* the application of that name to the body it was given
ApplyBodyFunc(func, body, acc) ==
  IF func = "modifyNpmInfoResponse"
  THEN modifyNpmInfoResponse(body, acc.headers, acc.hasSuppressedVersions)
  ELSE [acc EXCEPT !.body = [type |-> "applied", func |-> func, to |-> body]]

\* the handler's modifyBody: every registered function is given the body
\* the upstream sent and the one headers object; the last result is returned
RECURSIVE modifyBody(_, _, _)
modifyBody(funcs, body, acc) ==
  IF funcs = <<>> THEN acc
  ELSE modifyBody(Tail(funcs), body, ApplyBodyFunc(Head(funcs), body, acc))

\* createProxyRequest: the upstream request https.request creates
UpstreamRequest(hostname, url, headers) ==
  [hostname |-> hostname, port |-> 443, path |-> url, headers |-> headers]

\* createProxyRequest: a copy of the client's headers without a truthy host
\* header goes through the handler's modifyRequestHeaders into the options
createProxyRequest(hostname, r) ==
  LET copy == IF Falsy(ValueOf(r.headers, "host")) THEN r.headers
              ELSE WithoutKeys(r.headers, {"host"})
      headers == modifyRequestHeaders(r.handler[1].reqheaderModificationFuncs, copy)
  IN UpstreamRequest(hostname, r.url, headers)

InternalServerError ==
  [statusCode |-> 500, headers |-> <<>>, body |-> [type |-> "message", text |-> "Internal Server Error"]]

\* a variant of the response callback that writes the headers as they were
\* before modifyBody
ClientResponse_HeadersBefore(handler, proxyRes, suppressed) ==
  IF proxyRes.statusCode = <<>>
  THEN [res |-> InternalServerError, hasSuppressedVersions |-> suppressed]
  ELSE IF modifiesResponse(handler)
  THEN LET gzip == ValueOf(proxyRes.headers, "content-encoding") = <<"gzip">>
           buffer == IF gzip THEN gunzipSync(proxyRes.body) ELSE proxyRes.body
           modified == modifyBody(handler.modifyBodyFuncs, buffer,
                                  [body |-> buffer, headers |-> <<proxyRes.headers>>,
                                   hasSuppressedVersions |-> suppressed])
       IN [res |-> [statusCode |-> proxyRes.statusCode[1], headers |-> proxyRes.headers,
                    body |-> IF gzip THEN gzipSync(modified.body) ELSE modified.body],
           hasSuppressedVersions |-> modified.hasSuppressedVersions]
  ELSE [res |-> [statusCode |-> proxyRes.statusCode[1], headers |-> proxyRes.headers,
                 body |-> proxyRes.body],
        hasSuppressedVersions |-> suppressed]

\* createProxyRequest: the callback of https.request, up to res.end. A
\* response without status code is answered with 500; the body of a response
\* the handler modifies is buffered, unzipped, modified and zipped again and
\* sent with the headers object modifyBody was given; any other response is
\* piped.
ClientResponse(handler, proxyRes, suppressed) ==
  IF proxyRes.statusCode = <<>>
  THEN [res |-> InternalServerError, hasSuppressedVersions |-> suppressed]
  ELSE IF modifiesResponse(handler)
  THEN LET gzip == ValueOf(proxyRes.headers, "content-encoding") = <<"gzip">>
           buffer == IF gzip THEN gunzipSync(proxyRes.body) ELSE proxyRes.body
           modified == modifyBody(handler.modifyBodyFuncs, buffer,
                                  [body |-> buffer, headers |-> <<proxyRes.headers>>,
                                   hasSuppressedVersions |-> suppressed])
       IN [res |-> [statusCode |-> proxyRes.statusCode[1], headers |-> modified.headers[1],
                    body |-> IF gzip THEN gzipSync(modified.body) ELSE modified.body],
           hasSuppressedVersions |-> modified.hasSuppressedVersions]
  ELSE [res |-> [statusCode |-> proxyRes.statusCode[1], headers |-> proxyRes.headers,
                 body |-> proxyRes.body],
        hasSuppressedVersions |-> suppressed]

\* a variant of handleRequest that goes on to forwardRequest after the block
\* answer (a missing return)
RespondOrForward_NoReturn(r, hostname) ==
  IF r.handler[1].blockResponse # <<>>
  THEN [r EXCEPT !.pc = "blocked", !.res = <<BlockedAnswer(r.handler[1].blockResponse[1])>>,
                 !.upstream = Append(@, createProxyRequest(hostname, r))]
  ELSE [r EXCEPT !.pc = "forwarded", !.upstream = Append(@, createProxyRequest(hostname, r))]

\* handleRequest after `await interceptor.handleRequest(targetUrl)`
RespondOrForward(r, hostname) ==
  IF r.handler[1].blockResponse # <<>>
  THEN [r EXCEPT !.pc = "blocked", !.res = <<BlockedAnswer(r.handler[1].blockResponse[1])>>]
  ELSE [r EXCEPT !.pc = "forwarded", !.upstream = Append(@, createProxyRequest(hostname, r))]

\* ---------------------------------------------------------- proxy actions
\* the child is alive while main awaits runCommand
ChildRuns == main.pc = "runCommand" /\ server = "listening"

\* handlers already started go on until the process ends
ProxyRuns == main.pc \notin {"init", "returned", "rejected", "exited"}

\* handleConnect: a CONNECT for host:443. A registry host of the current
\* ecosystem gets an interceptor, a subscription and a MITM server; any
\* other host is handed to tunnelRequest, a blind tunnel.
Connect(hosts, maxTunnels) ==
  /\ ChildRuns
  /\ Len(tunnels) < maxTunnels
  /\ \E host \in hosts :
       LET interceptor == createInterceptorForUrl(ecoSystem, host \o <<":443">>)
       IN IF interceptor.kind # "none"
          THEN /\ tunnels' = Append(tunnels,
                    [hostname |-> host, kind |-> interceptor.kind,
                     registry |-> interceptor.registry, listeners |-> ConnectListeners])
               /\ blind' = blind
          ELSE /\ blind' = blind \cup {host}
               /\ tunnels' = tunnels
  /\ UNCHANGED <<call, pip, address, rewrite, hasSuppressedVersions, ecoSystem, cli, main, scan, server, state, requests, emitted, auditStats>>

\* the listener main has set for uncaughtException: process.exit(1)
UncaughtException(m) == [m EXCEPT !.pc = "exited", !.result = <<1>>]

\* handleConnect for a registry host when generateCertForHost fails: the
\* exception leaves createHttpsServer, mitmConnect and handleConnect, the
\* listener of the server's connect event, before anything is written to the
\* client socket and before the error listener of the HTTPS server is set
ConnectMintFails(hosts, maxTunnels) ==
  /\ ChildRuns
  /\ Len(tunnels) < maxTunnels
  /\ call.pc = "none"
  /\ \E host \in hosts :
       /\ createInterceptorForUrl(ecoSystem, host \o <<":443">>).kind # "none"
       /\ call' = [pc |-> "thrown", fn |-> "generateCertForHost", input |-> host,
                   output |-> <<>>]
  /\ main' = UncaughtException(main)
  /\ UNCHANGED <<pip, address, rewrite, hasSuppressedVersions, ecoSystem, cli, scan, server, state, tunnels, blind, requests, emitted, auditStats>>

\* handleRequest of the MITM server of tunnel t, up to its first await
NewRequest(urls, headerSets, maxRequests) ==
  /\ ChildRuns
  /\ Len(requests) < maxRequests
  /\ \E t \in 1..Len(tunnels), url \in urls, headers \in headerSets :
       /\ LET base == [tunnel |-> t, url |-> url, headers |-> headers, proxyRes |-> <<>>,
                       pc |-> "badRequest", targetUrl |-> NoUrl,
                       pkg |-> NoPackage, malwarePackages |-> <<>>, auditResult |-> <<>>,
                       malware |-> FALSE, ctx |-> NewContext, handler |-> <<>>,
                       res |-> <<BadRequestAnswer>>, upstream |-> <<>>]
              targetUrl == [host |-> tunnels[t].hostname, path |-> getRequestPathAndQuery(url)]
              pkg == ParsePackage(tunnels[t].kind, targetUrl, tunnels[t].registry)
          IN requests' = Append(requests,
               IF Falsy(url) THEN base
               ELSE [base EXCEPT !.targetUrl = targetUrl, !.pkg = pkg, !.res = <<>>,
                                 !.pc = IF NeedsOracle(pkg) THEN "openMalwareDatabase"
                                        ELSE "isMalwarePackage"])
  /\ UNCHANGED <<call, pip, address, rewrite, hasSuppressedVersions, ecoSystem, cli, main, scan, server, state, tunnels, blind, emitted, auditStats>>

\* the one change isMalwarePackage audits
RequestChanges(r) ==
  << [name |-> r.pkg.packageName, version |-> r.pkg.version, type |-> "add"] >>

\* openMalwareDatabase resolves for request i
RequestDbOpened(i) ==
  /\ requests[i].pc = "openMalwareDatabase"
  /\ requests' = [requests EXCEPT ![i].pc = "getPackagesWithMalware",
       ![i].malwarePackages = PackagesWithMalware(FilterAddOrChange(RequestChanges(requests[i])))]
  /\ UNCHANGED <<call, pip, address, rewrite, hasSuppressedVersions, ecoSystem, cli, main, scan, server, state, tunnels, blind, emitted, auditStats>>

\* auditChanges of request i resumes, runs its loop and returns;
\* isMalwarePackage returns in turn
RequestAuditCounts(i) ==
  /\ requests[i].pc = "getPackagesWithMalware"
  /\ LET acc == AuditLoop(RequestChanges(requests[i]), requests[i].malwarePackages,
                          [stats |-> auditStats, allowedChanges |-> <<>>,
                           disallowedChanges |-> <<>>])
     IN /\ auditStats' = acc.stats
        /\ requests' = [requests EXCEPT ![i].pc = "isMalwarePackage",
                                        ![i].auditResult = <<AuditResultOf(acc)>>,
                                        ![i].malware = isMalwarePackage(AuditResultOf(acc))]
  /\ UNCHANGED <<call, pip, address, rewrite, hasSuppressedVersions, ecoSystem, cli, main, scan, server, state, tunnels, blind, emitted>>

\* the setup function of request i resumes: blockMalware when the package is
\* malware (the event reaches the listeners at once), then the modifiers;
\* interceptor.handleRequest builds the handler
RequestSetup(i) ==
  /\ requests[i].pc = "isMalwarePackage"
  /\ LET r == requests[i]
         t == tunnels[r.tunnel]
         event == MalwareBlockedEvent(r.pkg.packageName, r.pkg.version, r.targetUrl)
         ctx == SetupContext(t.kind, r.ctx, r.targetUrl, r.malware)
     IN /\ requests' = [requests EXCEPT ![i].pc = "handleRequest", ![i].ctx = ctx,
                                        ![i].handler = <<BuildHandler(ctx)>>]
        /\ emitted' = IF r.malware THEN Append(emitted, event) ELSE emitted
        /\ state' = IF r.malware
                    THEN [state EXCEPT !.blockedRequests =
                            EmitMalwareBlocked(t.listeners, event, @)]
                    ELSE state
  /\ UNCHANGED <<call, pip, address, rewrite, hasSuppressedVersions, ecoSystem, cli, main, scan, server, tunnels, blind, auditStats>>

\* handleRequest of the MITM server resumes: the block answer or the upstream
\* request
RequestRespond(i) ==
  /\ requests[i].pc = "handleRequest"
  /\ requests' = [requests EXCEPT
                    ![i] = RespondOrForward(requests[i], tunnels[requests[i].tunnel].hostname)]
  /\ UNCHANGED <<call, pip, address, rewrite, hasSuppressedVersions, ecoSystem, cli, main, scan, server, state, tunnels, blind, emitted, auditStats>>

\* the callback of https.request for request i: the upstream's response is
\* answered to the client
UpstreamResponds(i) ==
  /\ ProxyRuns
  /\ requests[i].pc = "forwarded"
  /\ \E proxyRes \in UpstreamResponses :
       LET answer == ClientResponse(requests[i].handler[1], proxyRes, hasSuppressedVersions)
       IN /\ requests' = [requests EXCEPT ![i].pc = "responded",
                                          ![i].proxyRes = <<proxyRes>>,
                                          ![i].res = <<answer.res>>]
          /\ hasSuppressedVersions' = answer.hasSuppressedVersions
  /\ UNCHANGED <<call, pip, address, rewrite, ecoSystem, cli, main, scan, server, state, tunnels, blind, emitted, auditStats>>

BadGateway ==
  [statusCode |-> 502, headers |-> <<>>, body |-> [type |-> "message", text |-> "Bad Gateway"]]

\* the error event of the upstream request (proxyReq) for request i: the
\* listener of forwardRequest calls res.writeHead(502) and res.end. The
\* error comes before any response (dial, TLS) or, for a response that is
\* piped, after res.writeHead(statusCode, headers) has sent the headers:
\* writeHead then throws ERR_HTTP_HEADERS_SENT in the listener, uncaught.
UpstreamRequestError(i) ==
  /\ ProxyRuns
  /\ requests[i].pc = "forwarded"
  /\ \E headersSent \in IF modifiesResponse(requests[i].handler[1])
                         THEN {FALSE} ELSE {FALSE, TRUE} :
       IF headersSent
       THEN /\ requests' = [requests EXCEPT ![i].pc = "headersSent"]
            /\ main' = UncaughtException(main)
       ELSE /\ requests' = [requests EXCEPT ![i].pc = "badGateway",
                                            ![i].res = <<BadGateway>>]
            /\ main' = main
  /\ UNCHANGED <<call, pip, address, rewrite, hasSuppressedVersions, ecoSystem, cli, scan, server, state, tunnels, blind, emitted, auditStats>>

RequestStep ==
  /\ ProxyRuns
  /\ \E i \in 1..Len(requests) :
       \/ RequestDbOpened(i)
       \/ RequestAuditCounts(i)
       \/ RequestSetup(i)
       \/ RequestRespond(i)

\* ------------------------------------------------------------ specification
\* main up to the child's exit
BeforeChild(addresses) ==
  \/ MainStart
  \/ StartServerResolves(addresses)
  \/ StartServerRejects
  \/ ResolverReturns
  \/ ScanDbOpened
  \/ ScanAuditCounts
  \/ ScanSettles
  \/ ScanTimeout
  \/ ScanRejects

\* main from the child's exit on
AfterChild ==
  \/ ChildExits
  \/ RunCommandThrows

\* handleProcessTermination, the listener of SIGINT and of SIGTERM that main
\* registers on entry: ui.writeBufferedLogsAndStopBuffering()
HandleProcessTermination ==
  /\ main.pc # "init"
  /\ main.buffering
  /\ main' = [main EXCEPT !.buffering = FALSE]
  /\ UNCHANGED <<call, pip, address, rewrite, hasSuppressedVersions, ecoSystem, cli, scan, server, state, tunnels, blind, requests, emitted, auditStats>>

\* The wrapper: main with its pre-scan, the child and the proxy.
Next ==
  \/ BeforeChild(ListenAddresses)
  \/ AfterChild
  \/ StopServerResolves
  \/ Connect(Hosts, MaxMainTunnels)
  \/ NewRequest(RequestUrls(ecoSystem), {Headers_install}, MaxMainRequests)
  \/ RequestStep

Spec == Init /\ [][Next]_vars

\* The wrapper and the signals of its terminal
NextSignals == Next \/ HandleProcessTermination
SpecSignals == Init /\ [][NextSignals]_vars

\* The proxy while the child runs. It starts where main awaits runCommand
\* with the pre-scan skipped: the server listens, nothing is counted yet.
InitProxy ==
  /\ ecoSystem \in {"js", "py"}
  /\ \E skip \in SkipFlags(ecoSystem) : cli = [skipMinimumPackageAge |-> skip]
  /\ main = [pc |-> "runCommand", result |-> <<>>, returned |-> <<>>, runCommandCalls |-> 1,
             childStatus |-> <<>>, blockedAtExit |-> 0, scanOutcome |-> "skipped",
             stopServerCalls |-> 0, stopServerResolved |-> 0, stoppedBy |-> "none",
             suppressedHint |-> FALSE, buffering |-> FALSE]
  /\ scan = IdleScan
  /\ server = "listening"
  /\ \E port \in Ports : state = [port |-> <<port>>, blockedRequests |-> <<>>]
  /\ tunnels = <<>>
  /\ blind = {}
  /\ requests = <<>>
  /\ emitted = <<>>
  /\ auditStats = InitialAuditStats
  /\ hasSuppressedVersions = FALSE
  /\ rewrite = NoRewrite
  /\ address = <<[address |-> "::", port |-> state.port[1]]>>
  /\ call = NoCall
  /\ pip = NoPip

NextProxy ==
  \/ Connect(Hosts, MaxTunnels)
  \/ NewRequest(RequestUrls(ecoSystem), {Headers_install}, MaxRequests)
  \/ RequestStep

SpecProxy == InitProxy /\ [][NextProxy]_vars

\* The audit counters: the pre-scan of main, then the requests of the child.
NextAudit ==
  \/ BeforeChild({"::"})
  \/ StopServerResolves
  \/ Connect(Hosts, MaxMainTunnels)
  \/ NewRequest(RequestUrls(ecoSystem), {Headers_install}, MaxAuditRequests)
  \/ RequestStep

SpecAudit == Init /\ [][NextAudit]_vars


\* The forward path of the npm proxy: requests for URLs of every kind, their
\* upstream requests and the upstream's responses.
InitForward == InitProxy /\ ecoSystem = "js"

NextForward ==
  \/ Connect({Host_npmjs}, MaxMainTunnels)
  \/ NewRequest(ForwardUrls, ClientHeaders, MaxMainRequests)
  \/ RequestStep
  \/ \E i \in 1..Len(requests) : UpstreamResponds(i)

SpecForward == InitForward /\ [][NextForward]_vars

\* The forward path when the upstream request may fail.
NextUpstream ==
  \/ NextForward
  \/ \E i \in 1..Len(requests) : UpstreamRequestError(i)

SpecUpstream == InitForward /\ [][NextUpstream]_vars

\* The proxy when the leaf certificate of a CONNECT may fail to be minted.
NextMint ==
  \/ NextProxy
  \/ ConnectMintFails(Hosts, MaxTunnels)

SpecMint == InitProxy /\ [][NextMint]_vars

\* The suppressed-versions hint: requests for a packument and for a tarball
\* the oracle knows, the upstream's responses, and main from the child's
\* exit on.
HintUrls == {Path_a, Path_a1_tgz}

NextHint ==
  \/ Connect({Host_npmjs}, MaxMainTunnels)
  \/ NewRequest(HintUrls, {Headers_install}, MaxRequests)
  \/ RequestStep
  \/ \E i \in 1..Len(requests) : UpstreamResponds(i)
  \/ AfterChild
  \/ StopServerResolves

SpecHint == InitForward /\ [][NextHint]_vars

\* ----------------------------------------------- the rewriter on its own
\* modifyNpmInfoResponse is called with a body and the headers of its response
Rewrite ==
  /\ rewrite.pc = "input"
  /\ LET result == modifyNpmInfoResponse(rewrite.body, rewrite.headers, hasSuppressedVersions)
     IN /\ rewrite' = [rewrite EXCEPT !.pc = "first", !.first = <<result>>]
        /\ hasSuppressedVersions' = result.hasSuppressedVersions
  /\ UNCHANGED <<call, pip, address, ecoSystem, cli, main, scan, server, state, tunnels, blind, requests,
                 emitted, auditStats>>

\* modifyNpmInfoResponse is called with what its first call has returned
RewriteAgain ==
  /\ rewrite.pc = "first"
  /\ LET result == modifyNpmInfoResponse(rewrite.first[1].body, rewrite.first[1].headers,
                                         hasSuppressedVersions)
     IN /\ rewrite' = [rewrite EXCEPT !.pc = "second", !.second = <<result>>]
        /\ hasSuppressedVersions' = result.hasSuppressedVersions
  /\ UNCHANGED <<call, pip, address, ecoSystem, cli, main, scan, server, state, tunnels, blind, requests,
                 emitted, auditStats>>

InitRewrite ==
  /\ ecoSystem = "js"
  /\ cli = [skipMinimumPackageAge |-> FALSE]
  /\ main = [pc |-> "runCommand", result |-> <<>>, returned |-> <<>>, runCommandCalls |-> 1,
             childStatus |-> <<>>, blockedAtExit |-> 0, scanOutcome |-> "skipped",
             stopServerCalls |-> 0, stopServerResolved |-> 0, stoppedBy |-> "none",
             suppressedHint |-> FALSE, buffering |-> FALSE]
  /\ scan = IdleScan
  /\ server = "listening"
  /\ \E port \in Ports : state = [port |-> <<port>>, blockedRequests |-> <<>>]
  /\ tunnels = <<>>
  /\ blind = {}
  /\ requests = <<>>
  /\ emitted = <<>>
  /\ auditStats = InitialAuditStats
  /\ hasSuppressedVersions = FALSE
  /\ address = <<[address |-> "::", port |-> state.port[1]]>>
  /\ call = NoCall
  /\ pip = NoPip
  /\ \E input \in RewriteInputs :
       rewrite = [pc |-> "input", body |-> input.body, headers |-> input.headers,
                  first |-> <<>>, second |-> <<>>]

NextRewrite ==
  \/ Rewrite
  \/ RewriteAgain

SpecRewrite == InitRewrite /\ [][NextRewrite]_vars

\* handleConnect alone, over every host a CONNECT can name
NextConnect == Connect(ConnectHosts, MaxTunnels)

SpecConnect == InitProxy /\ [][NextConnect]_vars

\* ------------------------------------------------- functions on their own
\* the state in which a function is called: the proxy started or not
InitCalledWith(input, cliState, rewriterCall) ==
  /\ ecoSystem = "js"
  /\ cli = cliState
  /\ main = [pc |-> "runCommand", result |-> <<>>, returned |-> <<>>, runCommandCalls |-> 1,
             childStatus |-> <<>>, blockedAtExit |-> 0, scanOutcome |-> "skipped",
             stopServerCalls |-> 0, stopServerResolved |-> 0, stoppedBy |-> "none",
             suppressedHint |-> FALSE, buffering |-> FALSE]
  /\ scan = IdleScan
  /\ tunnels = <<>>
  /\ blind = {}
  /\ requests = <<>>
  /\ emitted = <<>>
  /\ auditStats = InitialAuditStats
  /\ hasSuppressedVersions = FALSE
  /\ rewrite = rewriterCall
  /\ call = input
  /\ \/ /\ server = "listening"
        /\ \E port \in Ports :
             /\ state = [port |-> <<port>>, blockedRequests |-> <<>>]
             /\ address = <<[address |-> "::", port |-> port]>>
     \/ /\ server = "created"
        /\ state = [port |-> <<>>, blockedRequests |-> <<>>]
        /\ address = <<>>

InitCalled(input) ==
  /\ InitCalledWith(input, [skipMinimumPackageAge |-> FALSE], NoRewrite)
  /\ pip = NoPip

\* the function named fn is called with an input
Called(fn, input) == [pc |-> "called", fn |-> fn, input |-> input, output |-> <<>>]

\* the function returns
Returns(output) ==
  /\ call' = [call EXCEPT !.pc = "returned", !.output = <<output>>]
  /\ UNCHANGED <<pip, address, rewrite, hasSuppressedVersions, ecoSystem, cli, main, scan,
                 server, state, tunnels, blind, requests, emitted, auditStats>>

\* main calls initializeCliArguments(args)
InitializeCliArguments ==
  /\ call.pc = "called"
  /\ call.fn = "initializeCliArguments"
  /\ LET result == initializeCliArguments(call.input, cli)
     IN /\ call' = [call EXCEPT !.pc = "returned", !.output = <<result.remainingArgs>>]
        /\ cli' = result.state
  /\ UNCHANGED <<pip, address, rewrite, hasSuppressedVersions, ecoSystem, main, scan,
                 server, state, tunnels, blind, requests, emitted, auditStats>>

\* the child's request for a packument is answered, after the command line
\* has been read
RewriteAfterArgs ==
  /\ call.pc = "returned"
  /\ Rewrite

\* The command line: initializeCliArguments, then the rewriter on a packument
\* with a version 23 hours old.
InitArgs ==
  \E args \in ArgLists :
    /\ InitCalledWith(Called("initializeCliArguments", args), InitialCliState,
                      [pc |-> "input", body |-> JsonBody(YoungPackument, TRUE),
                       headers |-> <<JsonHeaders>>, first |-> <<>>, second |-> <<>>])
    /\ pip = NoPip

NextArgs ==
  \/ InitializeCliArguments
  \/ RewriteAfterArgs

SpecArgs == InitArgs /\ [][NextArgs]_vars

\* The rewriter on the responses that fail a precondition or make it throw.
InitFailingRewrite ==
  \E input \in FailingRewriteInputs :
    /\ InitCalledWith(NoCall, [skipMinimumPackageAge |-> FALSE],
                      [pc |-> "input", body |-> input.body, headers |-> input.headers,
                       first |-> <<>>, second |-> <<>>])
    /\ pip = NoPip

SpecFailingRewrite == InitFailingRewrite /\ [][NextRewrite]_vars

\* The cleanup stage of main: the child opens tunnels and exits, stopServer
\* is called. The event loop runs the timer of stopServer when it is due.
NextStop ==
  \/ AfterChild
  \/ StopServerResolves
  \/ Connect(Hosts \cup {Host_github}, MaxMainTunnels)

SpecStop == InitProxy /\ [][NextStop]_vars /\ WF_vars(StopServerTimeout)

\* the MITM server calls handler.modifyBody(buffer, headers)
ModifyBody ==
  /\ call.pc = "called"
  /\ call.fn = "modifyBody"
  /\ Returns(modifyBody(call.input.modifyBodyFuncs, call.input.body,
                        [body |-> call.input.body, headers |-> <<call.input.headers>>,
                         hasSuppressedVersions |-> FALSE]).body)

InitBody ==
  \E funcs \in BodyModifierLists, proxyRes \in UpstreamResponses :
    InitCalled(Called("modifyBody", [modifyBodyFuncs |-> funcs, body |-> proxyRes.body,
                                     headers |-> proxyRes.headers]))

SpecBody == InitBody /\ [][ModifyBody]_vars

\* ------------------------------------------------------------------ runPip
getCombinedCaBundlePath == <<"/safe-chain/combined-ca.pem">>

\* fs.writeFile(path, content)
writeFile(p, path, content) ==
  [p EXCEPT !.fs[path] = <<content>>, !.written = Append(@, path)]

\* the configuration runPip writes: the section it read, or an empty one,
\* with cert and, when there is a proxy, proxy set
PipConfig(parsed, proxy) ==
  LET withCert == SetValue(parsed, "cert", getCombinedCaBundlePath)
  IN IF Falsy(proxy) THEN withCert ELSE SetValue(withCert, "proxy", proxy)

\* runPip up to the call of safeSpawn
RunPipPrepare ==
  /\ pip.pc = "called"
  /\ LET env == mergeSafeChainProxyEnvironmentVariables(pip.processEnv, state.port)
         proxy == IF ~Falsy(ValueOf(env, "GLOBAL_AGENT_HTTP_PROXY"))
                  THEN ValueOf(env, "GLOBAL_AGENT_HTTP_PROXY")
                  ELSE IF ~Falsy(ValueOf(env, "HTTPS_PROXY")) THEN ValueOf(env, "HTTPS_PROXY")
                  ELSE IF ~Falsy(ValueOf(env, "HTTP_PROXY")) THEN ValueOf(env, "HTTP_PROXY")
                  ELSE <<>>
         userConfig == ValueOf(env, "PIP_CONFIG_FILE")
         pipConfigPath == TempConfigPath
         spawning == [pip EXCEPT !.pc = "safeSpawn"]
     IN pip' =
          IF Falsy(userConfig)
          THEN [writeFile(spawning, pipConfigPath, PipConfig(<<>>, proxy))
                  EXCEPT !.env = SetValue(env, "PIP_CONFIG_FILE", <<pipConfigPath>>),
                         !.cleanupConfigPath = <<pipConfigPath>>]
          ELSE IF pip.fs[userConfig[1]] # <<>>
          THEN [writeFile(spawning, pipConfigPath, PipConfig(pip.fs[userConfig[1]][1], proxy))
                  EXCEPT !.env = SetValue(env, "PIP_CONFIG_FILE", <<pipConfigPath>>),
                         !.cleanupConfigPath = <<pipConfigPath>>]
          ELSE [spawning EXCEPT !.env = env]
  /\ UNCHANGED <<call, address, rewrite, hasSuppressedVersions, ecoSystem, cli, main, scan,
                 server, state, tunnels, blind, requests, emitted, auditStats>>

\* the promise of safeSpawn resolves: pip has exited with a status
SafeSpawnResolves ==
  /\ pip.pc = "safeSpawn"
  /\ \E status \in ChildStatuses : pip' = [pip EXCEPT !.pc = "cleanup", !.result = <<status>>]
  /\ UNCHANGED <<call, address, rewrite, hasSuppressedVersions, ecoSystem, cli, main, scan,
                 server, state, tunnels, blind, requests, emitted, auditStats>>

\* the promise of safeSpawn rejects: the catch block of runPip returns the
\* status of the error, or 1 for a command that could not be started
SafeSpawnRejects ==
  /\ pip.pc = "safeSpawn"
  /\ \E error \in SpawnErrors :
       pip' = [pip EXCEPT !.pc = "settled",
                          !.returned = IF error # <<>> THEN error ELSE <<1>>]
  /\ UNCHANGED <<call, address, rewrite, hasSuppressedVersions, ecoSystem, cli, main, scan,
                 server, state, tunnels, blind, requests, emitted, auditStats>>

\* the cleanup after safeSpawn has resolved, and the return
RunPipCleanup ==
  /\ pip.pc = "cleanup"
  /\ pip' = [pip EXCEPT !.pc = "settled",
                        !.fs = IF pip.cleanupConfigPath # <<>>
                               THEN [@ EXCEPT ![pip.cleanupConfigPath[1]] = <<>>]
                               ELSE @,
                        !.returned = pip.result]
  /\ UNCHANGED <<call, address, rewrite, hasSuppressedVersions, ecoSystem, cli, main, scan,
                 server, state, tunnels, blind, requests, emitted, auditStats>>

InitPip ==
  \E processEnv \in PipCallerEnvs, userConfig \in UserConfigs :
    /\ InitCalledWith(NoCall, [skipMinimumPackageAge |-> FALSE], NoRewrite)
    /\ pip = [pc |-> "called", processEnv |-> processEnv, env |-> <<>>,
              fs |-> [path \in ConfigPaths |->
                        IF path = UserConfigPath THEN <<userConfig>> ELSE <<>>],
              userConfig |-> userConfig, written |-> <<>>, cleanupConfigPath |-> <<>>,
              result |-> <<>>, returned |-> <<>>]

NextPip == RunPipPrepare \/ SafeSpawnResolves \/ SafeSpawnRejects \/ RunPipCleanup

SpecPip == InitPip /\ [][NextPip]_vars

\* the setup function of the pip interceptor parses the target URL
ParsePipUrl ==
  /\ call.pc = "called"
  /\ call.fn = "parsePipPackageFromUrl"
  /\ Returns(parsePipPackageFromUrl(call.input.url, call.input.registry))

InitPipUrl ==
  \E filename \in PipFilenames :
    InitCalled(Called("parsePipPackageFromUrl",
                      [url |-> [host |-> Host_files_pythonhosted,
                                path |-> <<"/", "p", "/">> \o filename],
                       registry |-> Host_files_pythonhosted]))

SpecPipUrl == InitPipUrl /\ [][ParsePipUrl]_vars

\* runCommand builds the environment of the child
MergeEnv ==
  /\ call.pc = "called"
  /\ call.fn = "mergeSafeChainProxyEnvironmentVariables"
  /\ Returns(mergeSafeChainProxyEnvironmentVariables(call.input, state.port))

InitEnv ==
  \E env \in CallerEnvs : InitCalled(Called("mergeSafeChainProxyEnvironmentVariables", env))

SpecEnv == InitEnv /\ [][MergeEnv]_vars

\* ------------------------------------------------------------- properties
\* the requests whose handler has been built
Built == {i \in 1..Len(requests) : requests[i].handler # <<>>}

\* what the oracle says of the package parsed from the target URL of request
\* r; a URL without name or version names no package the oracle knows
OracleSays(r) == isMalware(r.pkg.packageName, r.pkg.version)

\* the malwareBlocked events emitted for the target URL of request r
EventsFor(r) == {k \in 1..Len(emitted) : emitted[k].targetUrl = r.targetUrl}

\* C1: for the npm and the pip interceptor, a request whose parsed
\* (name, version) the oracle calls malware gets a handler with blockResponse
\* {403, "Forbidden - blocked by safe-chain"} and a malwareBlocked event is
\* emitted for it; a request the oracle does not call malware gets a handler
\* without blockResponse and no event is emitted for it.
C1_BlockIffOracle ==
  \A i \in Built :
    LET r == requests[i]
    IN IF OracleSays(r)
       THEN /\ r.handler[1].blockResponse =
                 <<[statusCode |-> 403, message |-> "Forbidden - blocked by safe-chain"]>>
            /\ \E k \in EventsFor(r) : /\ emitted[k].packageName = r.pkg.packageName
                                       /\ emitted[k].version = r.pkg.version
       ELSE /\ r.handler[1].blockResponse = <<>>
            /\ EventsFor(r) = {}

\* C1 happens: one request has been blocked and another one, whose package
\* the oracle was asked about, has not
C1_Witness ==
  \E i, j \in Built :
    /\ OracleSays(requests[i])
    /\ requests[i].handler[1].blockResponse # <<>>
    /\ NeedsOracle(requests[j].pkg)
    /\ ~OracleSays(requests[j])
    /\ requests[j].handler[1].blockResponse = <<>>

\* C2: a request whose handler carries a blockResponse is answered with the
\* status code of the blockResponse and its message as body, and no upstream
\* request is ever created for it, whatever the other requests do.
C2_BlockedNeverForwarded ==
  \A i \in Built :
    LET r == requests[i]
    IN r.handler[1].blockResponse # <<>> =>
         /\ r.upstream = <<>>
         /\ r.pc \in {"handleRequest", "blocked"}
         /\ r.pc = "blocked" =>
              /\ Len(r.res) = 1
              /\ r.res[1].statusCode = r.handler[1].blockResponse[1].statusCode
              /\ r.res[1].body = r.handler[1].blockResponse[1].message

\* C2 happens: a blocked request has been answered with 403 while another
\* request has been forwarded upstream
C2_Witness ==
  \E i, j \in Built :
    /\ requests[i].pc = "blocked"
    /\ requests[i].res[1].statusCode = 403
    /\ requests[j].pc = "forwarded"
    /\ Len(requests[j].upstream) = 1

\* the block decisions taken so far: the requests whose context got a
\* blockResponse
BlockDecisions == {i \in 1..Len(requests) : requests[i].ctx.blockResponse # <<>>}

\* C3: state.blockedRequests is append-only while the proxy runs: it has one
\* entry per malwareBlocked event, as many entries as block decisions taken
\* so far, and no step removes or alters an entry.
C3_BlockedRequestsAppendOnly ==
  /\ [](/\ Len(state.blockedRequests) = Len(emitted)
        /\ Len(state.blockedRequests) = Cardinality(BlockDecisions))
  /\ [][/\ Len(state.blockedRequests') >= Len(state.blockedRequests)
        /\ SubSeq(state.blockedRequests', 1, Len(state.blockedRequests))
             = state.blockedRequests]_vars

\* C3 happens: two requests of two tunnels have been blocked and
\* blockedRequests has grown to two entries
C3_Witness ==
  /\ Len(state.blockedRequests) = 2
  /\ \E i, j \in BlockDecisions : requests[i].tunnel # requests[j].tunnel

\* the pre-scan audit has reported a disallowed change
PreScanDisallowed == scan.audit # <<>> /\ ~scan.audit[1].isAllowed

\* C4: when state.blockedRequests is non-empty at the moment the child has
\* exited, main returns 1, whatever status the child exited with.
C4_BlockedMeansExitOne ==
  (main.childStatus # <<>> /\ main.blockedAtExit > 0) =>
    /\ main.result = <<1>>
    /\ main.pc = "returned" => main.returned = <<1>>

\* C4 happens: the child exited with 0 after a request was blocked, and main
\* has returned 1
C4_Witness ==
  /\ main.pc = "returned"
  /\ main.childStatus = <<0>>
  /\ main.blockedAtExit > 0
  /\ main.returned = <<1>>

\* C5: the exit code of main follows the precedence pre-scan disallowed,
\* pre-scan timeout, blocked download, child status: after a disallowed or
\* timed-out pre-scan main returns 1 and no child has run; after a child
\* with a blocked download it returns 1; otherwise it returns the child's own
\* status; and it returns 0 only for a child that exited 0 with nothing
\* blocked.
C5_ExitCodePrecedence ==
  main.pc = "returned" =>
    /\ (PreScanDisallowed \/ scan.timedOut) =>
         (main.returned = <<1>> /\ main.childStatus = <<>>)
    /\ (main.childStatus # <<>> /\ main.blockedAtExit > 0) => main.returned = <<1>>
    /\ (main.childStatus # <<>> /\ main.blockedAtExit = 0) =>
         main.returned = main.childStatus
    /\ main.returned = <<0>> =>
         /\ main.childStatus = <<0>>
         /\ main.blockedAtExit = 0
         /\ ~PreScanDisallowed
         /\ ~scan.timedOut

\* C5 happens: after an allowed pre-scan and with nothing blocked the child
\* exited with 2, and main has returned 2
C5_Witness ==
  /\ main.pc = "returned"
  /\ main.scanOutcome = "allowed"
  /\ main.childStatus = <<2>>
  /\ main.blockedAtExit = 0
  /\ main.returned = <<2>>

\* C6: when the pre-scan audit reports disallowed changes, scanCommand
\* returns 1 (unless its timeout has made it throw before), main returns 1
\* and runCommand is never invoked.
C6_DisallowedNeverRuns ==
  PreScanDisallowed =>
    /\ ~scan.timedOut => main.scanOutcome = "disallowed"
    /\ main.runCommandCalls = 0
    /\ main.childStatus = <<>>
    /\ main.result = <<1>>
    /\ main.pc = "returned" => main.returned = <<1>>

\* C6 happens: the audit reported a disallowed change within the timeout and
\* main has returned
C6_Witness ==
  /\ PreScanDisallowed
  /\ ~scan.timedOut
  /\ main.pc = "returned"
  /\ main.returned = <<1>>

\* C7: when the scan timeout elapses before the scan has settled, and so when
\* getDependencyUpdatesForCommand has not returned by then, scanCommand
\* rejects, main returns 1 and the child is never launched.
C7_TimeoutNeverRuns ==
  scan.timedOut =>
    /\ main.scanOutcome = "timeout"
    /\ main.runCommandCalls = 0
    /\ main.childStatus = <<>>
    /\ main.result = <<1>>
    /\ main.pc = "returned" => main.returned = <<1>>

\* C7 happens: the timeout elapsed while getDependencyUpdatesForCommand was
\* pending, the resolver returned later and its result was discarded, and
\* main has returned 1
C7_Witness ==
  /\ scan.timedOut
  /\ scan.pc = "discarded"
  /\ main.pc = "returned"
  /\ main.returned = <<1>>

\* C8: on every path through main after startServer has resolved,
\* stopServer is called, once, and has resolved before main returns.
C8_StopServerBeforeReturn ==
  /\ main.pc = "returned" =>
       /\ state.port # <<>>
       /\ main.stopServerCalls = 1
       /\ main.stopServerResolved = 1
       /\ server = "closed"
  /\ main.result # <<>> => main.stopServerCalls = 1

\* C8 happens: main has returned through its early return after a disallowed
\* pre-scan, and stopServer has resolved
C8_Witness ==
  /\ main.pc = "returned"
  /\ main.scanOutcome = "disallowed"
  /\ main.stopServerResolved = 1

\* C9: auditStats.totalPackages = safePackages + malwarePackages in every
\* reachable state, also with auditChanges calls interleaved at their awaits,
\* and no step decreases a counter.
C9_AuditStatsConsistent ==
  /\ [](auditStats.totalPackages = auditStats.safePackages + auditStats.malwarePackages)
  /\ [][/\ auditStats'.totalPackages >= auditStats.totalPackages
        /\ auditStats'.safePackages >= auditStats.safePackages
        /\ auditStats'.malwarePackages >= auditStats.malwarePackages]_vars

\* C9 happens: safe and malware packages have been counted while another
\* call of auditChanges waits at one of its awaits
C9_Witness ==
  /\ auditStats.safePackages >= 1
  /\ auditStats.malwarePackages >= 1
  /\ \E i \in 1..Len(requests) :
       requests[i].pc \in {"openMalwareDatabase", "getPackagesWithMalware"}

\* C10: auditChanges does not count a change of type remove: after the
\* pre-scan call, the first call of the process, each counter has grown by the
\* number of add and change entries it accounts for and by nothing else.
C10_RemoveNotCounted ==
  scan.pc \in {"auditChanges", "settled"} =>
    LET counted == FilterAddOrChange(scan.changes)
        malware == {k \in 1..Len(counted) : isMalware(counted[k].name, counted[k].version)}
    IN /\ auditStats.totalPackages = Len(counted)
       /\ auditStats.malwarePackages = Cardinality(malware)
       /\ auditStats.safePackages = Len(counted) - Cardinality(malware)

\* the registry hostnames of an ecosystem
RegistryHostnames(eco) ==
  IF eco = "js" THEN {Host_npmjs, Host_yarnpkg}
  ELSE {Host_files_pythonhosted, Host_pypi, Host_pypi_python, Host_pythonhosted}

\* C20: a CONNECT target gets an interceptor, and with it a MITM tunnel, if
\* and only if its host is one of the registry hostnames of the current
\* ecosystem; every other host is tunnelled blind.
C20_InterceptorIffRegistryHost ==
  /\ \A t \in 1..Len(tunnels) : tunnels[t].hostname \in RegistryHostnames(ecoSystem)
  /\ \A host \in blind : host \notin RegistryHostnames(ecoSystem)

\* the keys of an object
Keys(entries) == {entries[i][1] : i \in 1..Len(entries)}

\* the entries of `time` that stand for versions
VersionTimes(json) ==
  {json.time[i] : i \in {j \in 1..Len(json.time) :
                           json.time[j][1] \notin {Key_created, Key_modified}}}

\* the first call has rewritten a packument: it has returned the bytes of
\* JSON.stringify
Rewrote ==
  /\ rewrite.pc \in {"first", "second"}
  /\ rewrite.first[1].body.type = "json"
  /\ ~rewrite.first[1].body.raw

\* the names whose base is in the exemption allow-list
ExemptNames == {Name_exempt, Name_exempt_scoped}

\* C12: after modifyNpmInfoResponse has rewritten the packument of a
\* non-exempt package, every version whose timestamp is later than the cutoff
\* is gone from time and from versions, every version at or before the cutoff
\* is kept in time and, where it had one, in versions, and nothing is added.
C12_TooYoungRemoved ==
  (Rewrote /\ rewrite.body.json.name \notin ExemptNames) =>
    LET in == rewrite.body.json
        out == rewrite.first[1].body.json
    IN /\ \A e \in VersionTimes(in) :
            IF DateOf(e[2]) > Now - 24
            THEN e[1] \notin Keys(out.time) /\ e[1] \notin Keys(out.versions)
            ELSE /\ e \in VersionTimes(out)
                 /\ e[1] \in Keys(in.versions) => e[1] \in Keys(out.versions)
       /\ VersionTimes(out) \subseteq VersionTimes(in)
       /\ Keys(out.versions) \subseteq Keys(in.versions)
       /\ {Key_created, Key_modified} \subseteq Keys(out.time)

\* C12 happens: of three versions of a non-exempt packument, the one after
\* the cutoff has been removed and the one at the cutoff has been kept
C12_Witness ==
  /\ Rewrote
  /\ rewrite.body.json.name = Name_scoped
  /\ <<V2, T_cut>> \in VersionTimes(rewrite.body.json)
  /\ <<V3rc, T_young>> \in VersionTimes(rewrite.body.json)
  /\ Keys(rewrite.body.json.versions) = {V1, V2, V3rc}
  /\ Keys(rewrite.first[1].body.json.versions) = {V1, V2}

\* a packument as a registry serves it: every dist-tag points at a key of
\* versions, and every key of versions has an entry in time
WellFormed(json) ==
  /\ \A i \in 1..Len(json.distTags) : json.distTags[i][2] \in Keys(json.versions)
  /\ Keys(json.versions) \subseteq Keys(json.time)

\* C13: after the rewrite of a well-formed packument every dist-tag that
\* remains, a recomputed latest included, points at a key of versions; a
\* dist-tag whose version was removed is removed, unless it is latest; and a
\* tag other than latest keeps its version.
C13_DistTagsPointAtSurvivors ==
  (Rewrote /\ WellFormed(rewrite.body.json)) =>
    LET in == rewrite.body.json
        out == rewrite.first[1].body.json
    IN /\ \A i \in 1..Len(out.distTags) : out.distTags[i][2] \in Keys(out.versions)
       /\ \A i \in 1..Len(in.distTags) :
            in.distTags[i][1] # Tag_latest =>
              IF in.distTags[i][2] \in Keys(out.versions)
              THEN in.distTags[i] \in {out.distTags[k] : k \in 1..Len(out.distTags)}
              ELSE in.distTags[i][1] \notin Keys(out.distTags)

\* the entries of a set of time entries with the latest date
MostRecent(entries) == {e \in entries : \A f \in entries : DateOf(f[2]) <= DateOf(e[2])}

\* C14: when dist-tags.latest existed and its version was removed, the new
\* latest is a surviving time entry with the latest date among those whose
\* version has no "-"; without such an entry it is a surviving prerelease
\* with the latest date; without any surviving entry latest is unset. When
\* the version of latest was not removed, latest is what it was.
C14_LatestRecomputed ==
  Rewrote =>
    LET in == rewrite.body.json
        out == rewrite.first[1].body.json
        before == ValueOf(in.distTags, Tag_latest)
        after == ValueOf(out.distTags, Tag_latest)
        removed == before # Undefined /\ before \in Keys(in.time) /\ before \notin Keys(out.time)
        full == {e \in VersionTimes(out) : "-" \notin {e[1][i] : i \in 1..Len(e[1])}}
        pre == VersionTimes(out) \ full
    IN IF removed
       THEN IF full # {} THEN after \in {e[1] : e \in MostRecent(full)}
            ELSE IF pre # {} THEN after \in {e[1] : e \in MostRecent(pre)}
            ELSE Tag_latest \notin Keys(out.distTags)
       ELSE after = before

\* C14 happens: latest pointed at a removed version, a prerelease and an
\* older full release survive, and the full release is the new latest
C14_Witness ==
  /\ Rewrote
  /\ ValueOf(rewrite.body.json.distTags, Tag_latest) = V2
  /\ VersionTimes(rewrite.first[1].body.json) = {<<V1, T_old>>, <<V3rc, T_cut>>}
  /\ ValueOf(rewrite.first[1].body.json.distTags, Tag_latest) = V1

\* C15: modifyNpmInfoResponse applied to its own output, with the same
\* cutoff, returns a body byte-equal to that output, deletes no header and
\* does not touch hasSuppressedVersions.
C15_Idempotent ==
  rewrite.pc = "second" =>
    /\ rewrite.second[1].body = rewrite.first[1].body
    /\ rewrite.second[1].headers = rewrite.first[1].headers
    /\ rewrite.second[1].hasSuppressedVersions = rewrite.first[1].hasSuppressedVersions

\* C15 happens: the first call has removed two versions and recomputed
\* latest, and the second call has run on its output
C15_Witness ==
  /\ rewrite.pc = "second"
  /\ Rewrote
  /\ Keys(rewrite.body.json.versions) = {V1, V2, V3rc}
  /\ Keys(rewrite.first[1].body.json.versions) = {V1}
  /\ ValueOf(rewrite.body.json.distTags, Tag_latest) = V3rc
  /\ ValueOf(rewrite.first[1].body.json.distTags, Tag_latest) = V1

\* C16: for a packument whose name's base is in the exemption allow-list the
\* rewriter removes no version and no dist-tag, deletes no header and does
\* not set hasSuppressedVersions, however young its versions are.
C16_ExemptUntouched ==
  (rewrite.pc \in {"first", "second"} /\ rewrite.body.type = "json"
     /\ rewrite.body.json.name \in ExemptNames) =>
    /\ rewrite.first[1].body.json = rewrite.body.json
    /\ rewrite.first[1].headers = rewrite.headers
    /\ ~rewrite.first[1].hasSuppressedVersions
    /\ ~hasSuppressedVersions

\* C16 happens: the packument of a scoped exempt package with a version after
\* the cutoff has gone through the rewriter and still has that version
C16_Witness ==
  /\ Rewrote
  /\ rewrite.body.json.name = Name_exempt_scoped
  /\ <<V2, T_young>> \in VersionTimes(rewrite.first[1].body.json)
  /\ V2 \in Keys(rewrite.first[1].body.json.versions)
  /\ ValueOf(rewrite.first[1].body.json.distTags, Tag_latest) = V2

\* the path of a request URL: what precedes its first "?" or "#"
PathOf(url) ==
  LET n == CHOOSE n \in 0..Len(url) :
             /\ \A i \in 1..n : url[i] \notin {"?", "#"}
             /\ n < Len(url) => url[n + 1] \in {"?", "#"}
  IN SubSeq(url, 1, n)

\* the requests of npm tunnels whose handler has been built
NpmHandled ==
  {i \in 1..Len(requests) :
     requests[i].handler # <<>> /\ tunnels[requests[i].tunnel].kind = "npm"}

\* C11: with age checking enabled, the handler of an npm request modifies the
\* response exactly when the path of its URL, query and fragment left out,
\* neither ends in .tgz nor contains /-/.
C11_UrlClassification ==
  cli.skipMinimumPackageAge # TRUE =>
    \A i \in NpmHandled :
      LET path == PathOf(requests[i].url)
          tarball == EndsWith(path, Ch_tgz)
          special == ~tarball /\ Includes(path, <<"/", "-", "/">>)
      IN /\ tarball => ~modifiesResponse(requests[i].handler[1])
         /\ special => ~modifiesResponse(requests[i].handler[1])
         /\ (~tarball /\ ~special) => modifiesResponse(requests[i].handler[1])

\* C11 happens: a metadata URL whose query contains /-/ and ends in .tgz has
\* a handler that modifies the response
C11_Witness ==
  /\ cli.skipMinimumPackageAge # TRUE
  /\ \E i \in NpmHandled :
       /\ requests[i].url = Path_a_query
       /\ modifiesResponse(requests[i].handler[1])

\* the requests the upstream has answered with a status code
Answered ==
  {i \in 1..Len(requests) :
     requests[i].pc = "responded" /\ requests[i].proxyRes[1].statusCode # <<>>}

\* C17: with --safe-chain-skip-minimum-package-age the handler of an npm
\* request has no header modifier and no body modifier, whatever its URL;
\* the client gets the body the upstream sent, byte for byte, and
\* hasSuppressedVersions stays false.
C17_SkipLeavesResponses ==
  cli.skipMinimumPackageAge = TRUE =>
    /\ ~hasSuppressedVersions
    /\ \A i \in NpmHandled :
         /\ requests[i].handler[1].reqheaderModificationFuncs = <<>>
         /\ requests[i].handler[1].modifyBodyFuncs = <<>>
         /\ ~modifiesResponse(requests[i].handler[1])
         /\ i \in Answered => requests[i].res[1].body = requests[i].proxyRes[1].body

\* C17 happens: with the flag, a metadata request was answered by the
\* upstream with a packument that has a too-young version, and the client
\* got that body
C17_Witness ==
  /\ cli.skipMinimumPackageAge = TRUE
  /\ \E i \in NpmHandled \cap Answered :
       /\ requests[i].url = Path_a
       /\ requests[i].proxyRes[1].body = JsonBody(YoungPackument, TRUE)
       /\ requests[i].res[1].body = JsonBody(YoungPackument, TRUE)

\* a body without its gzip wrapping
Unzipped(body) == IF body.type = "gzip" THEN body.content ELSE body

\* the rewriter has removed a version from the response of request i
RemovedVersion(i) ==
  LET in == Unzipped(requests[i].proxyRes[1].body)
      out == Unzipped(requests[i].res[1].body)
  IN /\ in.type = "json"
     /\ out.type = "json"
     /\ \/ Keys(out.json.time) # Keys(in.json.time)
        \/ Keys(out.json.versions) # Keys(in.json.versions)

C19_AcceptCoerced ==
  \A i \in NpmHandled :
    \A j \in 1..Len(requests[i].upstream) :
      LET sent == requests[i].upstream[j].headers
          accept == ValueOf(requests[i].headers, "accept")
          compact == accept # Undefined
                       /\ Includes(accept, <<"application/vnd.npm.install-v1+json">>)
          metadata == cli.skipMinimumPackageAge # TRUE
                        /\ isPackageInfoUrl(requests[i].targetUrl)
      IN /\ "host" \notin Keys(sent)
         /\ (metadata /\ compact) => ValueOf(sent, "accept") = Accept_json
         /\ ~compact => ValueOf(sent, "accept") = accept

\* C19 happens: the metadata request of an install has been replayed
\* upstream with accept: application/json, without host and with its other
\* headers
C19_Witness ==
  /\ cli.skipMinimumPackageAge # TRUE
  /\ \E i \in NpmHandled :
       /\ requests[i].url = Path_a
       /\ requests[i].headers = Headers_install
       /\ Len(requests[i].upstream) = 1
       /\ requests[i].upstream[1].headers =
            << <<"accept", Accept_json>>, <<"user-agent", <<"npm">>>> >>

\* C25: while the proxy's server listens, its socket is bound to the
\* loopback address 127.0.0.1 alone, on the port recorded in state.port.
C25_LoopbackOnly ==
  server = "listening" =>
    /\ address # <<>>
    /\ address[1].address = "127.0.0.1"
    /\ state.port = <<address[1].port>>

ProxyVariables == {"HTTPS_PROXY", "GLOBAL_AGENT_HTTP_PROXY", "NODE_EXTRA_CA_CERTS"}

\* the call of the function named fn has returned
Returned(fn) == call.pc = "returned" /\ call.fn = fn

\* C21: with the proxy started, the merged environment has HTTPS_PROXY and
\* GLOBAL_AGENT_HTTP_PROXY equal to http://localhost:<port> and
\* NODE_EXTRA_CA_CERTS equal to the CA certificate path, and no variable of the
\* caller whose upper-cased name is one of the three, in whatever case and
\* order the caller has them.
C21_ProxyVariablesWin ==
  (Returned("mergeSafeChainProxyEnvironmentVariables") /\ state.port # <<>>) =>
    LET merged == call.output[1]
        proxyUrl == <<"http://localhost:", ToString(state.port[1])>>
    IN /\ ValueOf(merged, "HTTPS_PROXY") = proxyUrl
       /\ ValueOf(merged, "GLOBAL_AGENT_HTTP_PROXY") = proxyUrl
       /\ ValueOf(merged, "NODE_EXTRA_CA_CERTS") = getCaCertPath
       /\ \A i \in 1..Len(merged) :
            EnvUpper(merged[i][1]) \in ProxyVariables => merged[i][1] \in ProxyVariables
       /\ \A i, j \in 1..Len(merged) : i # j => merged[i][1] # merged[j][1]

\* C21 happens: the caller had https_proxy, then HTTPS_PROXY, then PATH, and
\* the merged environment has the proxy's three variables and PATH
C21_Witness ==
  /\ Returned("mergeSafeChainProxyEnvironmentVariables")
  /\ state.port # <<>>
  /\ Len(call.input) = 3
  /\ call.input[1][1] = "https_proxy"
  /\ call.input[2][1] = "HTTPS_PROXY"
  /\ Keys(call.output[1]) = ProxyVariables \cup {"PATH"}

\* an argument that starts with --safe-chain- in whatever case
IsWrapperFlag(arg) == arg[1] \in {"--safe-chain-", "--SAFE-CHAIN-", "--Safe-Chain-"}

IsChildArg(arg) == ~IsWrapperFlag(arg)

\* C22: initializeCliArguments returns the arguments that do not start with
\* --safe-chain-, compared without regard to case, in their order: every
\* argument with the prefix is left out, recognised or not, and no other
\* argument is.
C22_WrapperFlagsStripped ==
  Returned("initializeCliArguments") => call.output[1] = SelectSeq(call.input, IsChildArg)

\* C22 happens: an upper-case flag and an unknown flag were left out, and
\* --include-python was returned
C22_Witness ==
  /\ Returned("initializeCliArguments")
  /\ call.input = << <<"--SAFE-CHAIN-", "SKIP-MINIMUM-PACKAGE-AGE">>, <<"--include-python">>,
                     <<"--safe-chain-", "foo">> >>
  /\ call.output[1] = << <<"--include-python">> >>
  /\ cli.skipMinimumPackageAge
  /\ cli.includePython

\* the number a value of --safe-chain-minimum-package-age-hours= stands for
HoursOf(value) == IF value = <<"1">> THEN 1 ELSE IF value = <<"48">> THEN 48 ELSE 24

\* the hours the command line asks for: the value of the last
\* --safe-chain-minimum-package-age-hours= flag, 24 without one
HoursAsked(args) ==
  LET flags == {i \in 1..Len(args) :
                  /\ IsWrapperFlag(args[i])
                  /\ Len(args[i]) = 3
                  /\ args[i][2] \in {"minimum-package-age-hours=", "Minimum-Package-Age-Hours="}}
  IN IF flags = {} THEN 24 ELSE HoursOf(<<args[Max(flags)][3]>>)

\* C23: the rewriter keeps the versions published at or before now minus N
\* hours and no other, N being the value of the last
\* --safe-chain-minimum-package-age-hours= flag of the command line and 24
\* without such a flag.
C23_CutoffFromFlag ==
  (Returned("initializeCliArguments") /\ rewrite.pc = "first") =>
    {e[1] : e \in VersionTimes(rewrite.first[1].body.json)} =
      {e[1] : e \in {t \in VersionTimes(rewrite.body.json) :
                       DateOf(t[2]) <= Now - HoursAsked(call.input)}}

\* the positions of "-" in a file name
Dashes(f) == {i \in 1..Len(f) : f[i] = "-"}

\* the URL-decoded last path segment of the URL parsePipPackageFromUrl was
\* given: every %2D of the segment is a "-"
RECURSIVE Decoded(_)
Decoded(f) ==
  IF f = <<>> THEN <<>>
  ELSE IF Len(f) >= 3 /\ SubSeq(f, 1, 3) = <<"%", "2", "D">>
  THEN <<"-">> \o Decoded(SubSeq(f, 4, Len(f)))
  ELSE <<Head(f)>> \o Decoded(Tail(f))

ParsedFilename == Decoded(SubSeq(call.input.url.path, 4, Len(call.input.url.path)))

\* the name of a file without its sdist extension, <<>> for a file that has
\* none
SdistBase(f) ==
  LET ext == {e \in SdistExtensions : EndsWith(ToLowerCase(f), e)}
  IN IF ext = {} THEN <<>> ELSE SubSeq(f, 1, Len(f) - Len(CHOOSE e \in ext : TRUE))

\* what the parser returns for an sdist: the text before the last "-" of its
\* extension-stripped name and the text after it, both non-empty
SdistExpected(f) ==
  LET base == SdistBase(f)
      last == Max(Dashes(base))
  IN IF Dashes(base) # {} /\ last > 1 /\ last < Len(base)
          /\ SubSeq(base, last + 1, Len(base)) # Ch_latest
     THEN [packageName |-> SubSeq(base, 1, last - 1),
           version |-> SubSeq(base, last + 1, Len(base))]
     ELSE NoPackage

\* what the parser returns for a file whose name ends in .whl; a name with
\* fewer than minDashes "-" has not the shape of a wheel
WheelExpected(f, minDashes) ==
  LET base == SubSeq(f, 1, Len(f) - 4)
      first == Min(Dashes(base))
      later == Dashes(base) \ {first}
      end == IF later = {} THEN Len(base) + 1 ELSE Min(later)
  IN IF Cardinality(Dashes(base)) >= minDashes /\ Dashes(base) # {} /\ first > 1
          /\ end > first + 1 /\ SubSeq(base, first + 1, end - 1) # Ch_latest
     THEN [packageName |-> SubSeq(base, 1, first - 1),
           version |-> SubSeq(base, first + 1, end - 1)]
     ELSE NoPackage

PipExpected(f, minDashes) ==
  IF EndsWith(f, Ch_whl) THEN WheelExpected(f, minDashes) ELSE SdistExpected(f)

\* C26: for a .whl file whose name has a "-" after a non-empty name,
\* parsePipPackageFromUrl returns the text before the first "-" and the text
\* from there to the second "-" or, without a second one, to the end of the
\* name; for an sdist it returns the text before the last "-" of the
\* extension-stripped name and the text after it; it returns undefined for
\* the version latest, for an empty name or version and for any other file.
C26_PipParser ==
  Returned("parsePipPackageFromUrl") => call.output[1] = PipExpected(ParsedFilename, 1)

\* C26 happens: a wheel with one "-" only, written %2D, has been parsed into
\* its name and its version
C26_Witness ==
  /\ Returned("parsePipPackageFromUrl")
  /\ ParsedFilename = <<"a", "_", "b", "-", "1", ".", "0">> \o Ch_whl
  /\ "%" \in {call.input.url.path[i] : i \in 1..Len(call.input.url.path)}
  /\ call.output[1] = [packageName |-> <<"a", "_", "b">>, version |-> <<"1", ".", "0">>]

\* C26 as it was stated: the version of a wheel is the text between the
\* first and the second "-", so that a .whl file with one "-" only is a file
\* of another shape, for which undefined is returned.
C26_PipParser_Stated ==
  Returned("parsePipPackageFromUrl") => call.output[1] = PipExpected(ParsedFilename, 2)

\* C24: once runPip has settled after writing a temporary pip config file,
\* that file no longer exists, whatever became of the pip child, and the
\* file the caller's PIP_CONFIG_FILE names has not been written to.
C24_TempConfigRemoved ==
  (pip.pc = "settled" /\ TempConfigPath \in {pip.written[i] : i \in 1..Len(pip.written)})
    => /\ pip.fs[TempConfigPath] = <<>>
       /\ \A i \in 1..Len(pip.written) : pip.written[i] \notin {UserConfigPath, MissingConfigPath}
       /\ pip.fs[UserConfigPath] = <<pip.userConfig>>

\* C29: the k-th entry of state.blockedRequests holds the packageName, the
\* version and, as its url, the targetUrl of the k-th malwareBlocked event.
C29_EntryHoldsTargetUrl ==
  \A k \in 1..Min({Len(state.blockedRequests), Len(emitted)}) :
    /\ state.blockedRequests[k].packageName = emitted[k].packageName
    /\ state.blockedRequests[k].version = emitted[k].version
    /\ state.blockedRequests[k].url # Undefined
    /\ state.blockedRequests[k].url = emitted[k].targetUrl

\* the entries of state.blockedRequests that name the package of request r
EntriesFor(r) ==
  {k \in 1..Len(state.blockedRequests) :
     /\ state.blockedRequests[k].packageName = r.pkg.packageName
     /\ state.blockedRequests[k].version = r.pkg.version}

\* the requests for the package of request r whose handler, returned to the
\* MITM server, has a blockResponse
HandlersBlocking(r) ==
  {i \in Built : /\ requests[i].handler[1].blockResponse # <<>>
                 /\ requests[i].pkg = r.pkg}

\* C28: from the moment interceptor.handleRequest has returned the handler
\* of a request, state.blockedRequests has exactly one entry for each handler
\* with a blockResponse returned for that package, hence none for a handler
\* returned without one; and the list grows only in the step that returns a
\* handler with a blockResponse.
C28_NoRetroactiveBlock ==
  /\ [](\A i \in Built :
          Cardinality(EntriesFor(requests[i])) = Cardinality(HandlersBlocking(requests[i])))
  /\ [][Len(state.blockedRequests') > Len(state.blockedRequests)
          => \E i \in 1..Len(requests) :
               /\ requests[i].handler = <<>>
               /\ requests'[i].handler # <<>>
               /\ requests'[i].handler[1].blockResponse # <<>>]_vars

\* C28 happens: one request has been answered from its blockResponse and has
\* its entry, another has gone on without blockResponse and has none
C28_Witness ==
  \E i, j \in Built :
    /\ requests[i].handler[1].blockResponse # <<>>
    /\ EntriesFor(requests[i]) # {}
    /\ requests[j].handler[1].blockResponse = <<>>
    /\ requests[i].pc # "handleRequest"
    /\ requests[j].pc # "handleRequest"
    /\ EntriesFor(requests[j]) = {}

\* fn(...f1(body)...) for the modifiers f1..fn
RECURSIVE Composed(_, _, _)
Composed(funcs, body, headers) ==
  IF funcs = <<>> THEN body
  ELSE Composed(Tail(funcs),
                ApplyBodyFunc(Head(funcs), body,
                              [body |-> body, headers |-> <<headers>>,
                               hasSuppressedVersions |-> FALSE]).body,
                headers)

\* C30: the handler's modifyBody returns fn(...f1(body)...) for the modifiers
\* f1..fn in their order of registration, and the body itself for none.
C30_ModifiersCompose ==
  Returned("modifyBody")
    => call.output[1] = Composed(call.input.modifyBodyFuncs, call.input.body,
                                 call.input.headers)

\* C27: once stopServer has been called its promise resolves and main
\* returns, also while connections are open, so that the close callback is
\* not called, and when server.close throws.
C27_StopServerResolves == (main.pc = "stopServer") ~> (main.pc = "returned")

\* C27 happens: main has returned by the timer of stopServer while a tunnel
\* of the child was still open
C27_Witness ==
  /\ main.pc = "returned"
  /\ main.stoppedBy = "timeout"
  /\ tunnels # <<>>

\* C40: the result of the auditChanges call of the pre-scan has no change of
\* type remove among its disallowedChanges; its disallowedChanges are the
\* add and change entries of the input the oracle calls malware, its
\* allowedChanges all other entries, and every input change is in one list.
C40_RemoveNeverDisallowed ==
  scan.auditResult # <<>> =>
    LET result == scan.auditResult[1]
        disallowed == result.disallowedChanges
        allowed == result.allowedChanges
        flagged == SelectSeq(scan.changes,
                     LAMBDA c : IsAddOrChange(c) /\ isMalware(c.name, c.version))
        others == SelectSeq(scan.changes,
                    LAMBDA c : ~(IsAddOrChange(c) /\ isMalware(c.name, c.version)))
    IN /\ \A k \in 1..Len(disallowed) : disallowed[k].type # "remove"
       /\ [k \in 1..Len(disallowed) |->
             [name |-> disallowed[k].name, version |-> disallowed[k].version,
              type |-> disallowed[k].type]] = flagged
       /\ allowed = others
       /\ Len(allowed) + Len(disallowed) = Len(scan.changes)

\* the URL parser has yielded no package name or no version for request r
Unparsed(r) == Falsy(r.pkg.packageName) \/ Falsy(r.pkg.version)

\* C33: for a request whose URL yields no package name or no version,
\* isMalwarePackage returns false without opening the malware database or
\* calling auditChanges, no step of the request changes the audit counters,
\* and the request gets no blockResponse.
C33_UnparsedNeverBlocked ==
  /\ [](\A i \in 1..Len(requests) :
          Unparsed(requests[i]) =>
            /\ requests[i].pc \notin {"openMalwareDatabase", "getPackagesWithMalware"}
            /\ requests[i].malwarePackages = <<>>
            /\ requests[i].auditResult = <<>>
            /\ ~requests[i].malware
            /\ requests[i].ctx.blockResponse = <<>>)
  /\ [][\A i \in 1..Len(requests) :
          (Unparsed(requests[i]) /\ requests'[i] # requests[i]) => auditStats' = auditStats]_vars

\* C33 happens: a request for a URL that names no package version has been
\* handed on without blockResponse while the counters stand at zero
C33_Witness ==
  \E i \in Built :
    /\ requests[i].targetUrl # NoUrl
    /\ Unparsed(requests[i])
    /\ requests[i].pc # "handleRequest"
    /\ requests[i].handler[1].blockResponse = <<>>
    /\ auditStats = InitialAuditStats

\* the timer of the pre-scan has fired and the resolver has not settled yet
LateResolver == scan.timedOut /\ scan.pc = "getDependencyUpdatesForCommand"

\* C37: when the scan timeout has fired before getDependencyUpdatesForCommand
\* resolves, the step in which the resolver settles discards its result:
\* the scan ends there, auditChanges is not called for it, and the audit
\* counters are as they were.
C37_LateResultDiscarded ==
  /\ [][LateResolver =>
          /\ scan'.pc \in {"getDependencyUpdatesForCommand", "discarded", "rejected"}
          /\ scan'.changes = <<>>
          /\ scan'.auditResult = <<>>
          /\ auditStats' = auditStats]_vars
  /\ [][scan.pc = "discarded" => scan' = scan /\ auditStats' = auditStats]_vars
  /\ [](scan.pc = "discarded" => auditStats = InitialAuditStats)

\* C37 happens: the resolver has settled after the timeout and its result
\* has been discarded
C37_Witness ==
  /\ scan.pc = "discarded"
  /\ scan.timedOut
  /\ main.scanOutcome = "timeout"

\* C31: for a response that fails a precondition of the rewriter or makes it
\* throw, modifyNpmInfoResponse returns the body it was given, its headers
\* object has every header it had, and state.hasSuppressedVersions is as it
\* was before the call.
C31_FailedRewriteIsNoOp ==
  rewrite.pc = "first" =>
    /\ rewrite.first[1].body = rewrite.body
    /\ rewrite.first[1].headers = rewrite.headers
    /\ ~hasSuppressedVersions

\* the responses from which the rewriter has removed a version
Suppressed == {i \in Answered : RemovedVersion(i)}

Ch_502 == <<"HTTP/1.1 502 Bad Gateway">>

\* C34: when generateCertForHost has failed for a CONNECT, the client of
\* that CONNECT has been answered 502 and the process is running, with the
\* tunnels it had.
C34_MintFailureAbortsOne ==
  (call.pc = "thrown" /\ call.fn = "generateCertForHost")
    => /\ call.output = <<Ch_502>>
       /\ main.pc = "runCommand"
       /\ server = "listening"

\* C35: a request whose upstream request has failed is answered 502 Bad
\* Gateway, and no error event of the upstream request ends the process: the
\* proxy goes on serving.
C35_UpstreamFailureIs502 ==
  /\ \A i \in 1..Len(requests) :
       requests[i].pc \in {"badGateway", "headersSent"} => requests[i].res = <<BadGateway>>
  /\ main.pc # "exited"

\* C39: every variable of the caller whose upper-cased name is none of the
\* proxy's three is in the merged environment under its own name and with
\* its own value, whatever the order of the caller's variables and whatever
\* other variables the caller has.
C39_OtherVariablesCopied ==
  Returned("mergeSafeChainProxyEnvironmentVariables") =>
    \A i \in 1..Len(call.input) :
      EnvUpper(call.input[i][1]) \notin ProxyVariables
        => ValueOf(call.output[1], call.input[i][1]) = call.input[i][2]

\* C38: a response the MITM server has buffered and sent with a
\* content-length header has a body of that many bytes.
C38_ContentLengthIsBodyLength ==
  \A i \in 1..Len(requests) :
    (/\ requests[i].pc = "responded"
     /\ modifiesResponse(requests[i].handler[1])
     /\ requests[i].proxyRes[1].statusCode # <<>>
     /\ ValueOf(requests[i].res[1].headers, "content-length") # Undefined)
      => ValueOf(requests[i].res[1].headers, "content-length")
           = <<ToString(ByteLength(requests[i].res[1].body))>>

\* C36: once runCommand has settled, by resolving or by throwing, the logs
\* are buffered no more: main stops the proxy and returns with the buffered
\* logs written.
C36_NoReturnWhileBuffering ==
  main.pc \in {"stopServer", "returned"} => ~main.buffering

====
